---- MODULE Spec2Model ----
(***************************************************************************)
(* 1plan: REST entity services (projects, documents, features, sprints     *)
(* with sprint items) over a relational store, and the error-mapping       *)
(* layer.  Strings that the code inspects character by character (titles,  *)
(* slugs, error messages) are sequences of one-character strings.          *)
(***************************************************************************)
EXTENDS Integers, Sequences, FiniteSets, TLC

(***************************************************************************)
(* Bounds of the model                                                     *)
(***************************************************************************)
MaxTitleLen == 5        \* titles enumerated for generateSlug are this long at most
MaxIds == 3             \* rows (projects, documents, features, sprints) ever created
MaxItems == 2           \* items in one sprint request body

(***************************************************************************)
(* Characters and strings                                                  *)
(***************************************************************************)
UpperChars == <<"A", "B", "C", "D", "E", "F", "G", "H", "I", "J", "K", "L", "M",
                "N", "O", "P", "Q", "R", "S", "T", "U", "V", "W", "X", "Y", "Z">>
LowerChars == <<"a", "b", "c", "d", "e", "f", "g", "h", "i", "j", "k", "l", "m",
                "n", "o", "p", "q", "r", "s", "t", "u", "v", "w", "x", "y", "z">>
Digits == {"0", "1", "2", "3", "4", "5", "6", "7", "8", "9"}
Whitespace == {" ", "\t", "\n"}
LowerAlnum == {LowerChars[i] : i \in 1..26} \cup Digits

\* String.prototype.toLowerCase, one character
toLowerCaseChar(c) ==
  IF \E i \in 1..26 : UpperChars[i] = c
  THEN LowerChars[CHOOSE i \in 1..26 : UpperChars[i] = c]
  ELSE c

\* String.prototype.toLowerCase
toLowerCase(s) == [i \in 1..Len(s) |-> toLowerCaseChar(s[i])]

\* s.replace(/[^a-z0-9\s-]/g, '')
RemoveSpecial(s) == SelectSeq(s, LAMBDA c : c \in LowerAlnum \cup Whitespace \cup {"-"})

\* s.replace(/\s+/g, '-'): every maximal run of whitespace becomes one hyphen
ReplaceSpaces(s) ==
  LET F[i \in 0..Len(s)] ==
        IF i = 0 THEN <<>>
        ELSE IF s[i] \in Whitespace
             THEN IF i > 1 /\ s[i-1] \in Whitespace THEN F[i-1] ELSE Append(F[i-1], "-")
             ELSE Append(F[i-1], s[i])
  IN F[Len(s)]

\* s.replace(/-+/g, '-'): every maximal run of hyphens becomes one hyphen
CollapseHyphens(s) ==
  LET F[i \in 0..Len(s)] ==
        IF i = 0 THEN <<>>
        ELSE IF s[i] = "-" /\ i > 1 /\ s[i-1] = "-" THEN F[i-1]
             ELSE Append(F[i-1], s[i])
  IN F[Len(s)]

\* s.replace(/^-|-$/g, ''): one hyphen at the start and one at the end are
\* removed; the two matches never overlap, so "-" alone loses its only character once
TrimHyphensOnce(s) ==
  LET lead == Len(s) >= 1 /\ s[1] = "-"
      from == IF lead THEN 2 ELSE 1
      trail == Len(s) >= from /\ s[Len(s)] = "-"
      to == IF trail THEN Len(s) - 1 ELSE Len(s)
  IN  SubSeq(s, from, to)

\* the same chain without its last replace
generateSlugNoTrim(title) ==
  CollapseHyphens(ReplaceSpaces(RemoveSpecial(toLowerCase(title))))

\* generateSlug(title)
generateSlug(title) ==
  TrimHyphensOnce(CollapseHyphens(ReplaceSpaces(RemoveSpecial(toLowerCase(title)))))

\* the word w, compared without case, stands in s at position i
MatchAt(s, i, w) ==
  /\ i + Len(w) - 1 <= Len(s)
  /\ \A j \in 1..Len(w) : toLowerCaseChar(s[i + j - 1]) = w[j]

\* /rate\s*limit/i.test(s)
MatchesRateLimit(s) ==
  \E i \in 1..Len(s) :
    /\ MatchAt(s, i, <<"r", "a", "t", "e">>)
    /\ \E k \in 0..Len(s) :
         /\ \A j \in (i + 4)..(i + 3 + k) : j <= Len(s) /\ s[j] \in Whitespace
         /\ MatchAt(s, i + 4 + k, <<"l", "i", "m", "i", "t">>)

(***************************************************************************)
(* Error classes of the error-mapping layer                                *)
(***************************************************************************)
NoNum == 0              \* a number that is undefined or NULL: a status, a date, an id, a limit
NoStr == ""             \* a string that is undefined
NoDetails == <<>>       \* details that are undefined

MsgProjectNotFound == <<"P", "r", "o", "j", "e", "c", "t", " ", "n", "o", "t", " ", "f", "o", "u", "n", "d">>
MsgDocumentNotFound == <<"D", "o", "c", "u", "m", "e", "n", "t", " ", "n", "o", "t", " ", "f", "o", "u", "n", "d">>

\* new ValidationError(message, details)
ValidationError(message, details) ==
  [cls |-> "ValidationError", statusCode |-> 400, status |-> NoNum, code |-> "VALIDATION_ERROR",
   name |-> "ValidationError", message |-> message, details |-> details]

\* new NotFoundError(message)
NotFoundError(message) ==
  [cls |-> "NotFoundError", statusCode |-> 404, status |-> NoNum, code |-> "NOT_FOUND",
   name |-> "NotFoundError", message |-> message, details |-> NoDetails]

\* new ConflictError(message)
ConflictError(message) ==
  [cls |-> "ConflictError", statusCode |-> 409, status |-> NoNum, code |-> "CONFLICT",
   name |-> "ConflictError", message |-> message, details |-> NoDetails]

\* a ZodError thrown by schema.parse
ZodError ==
  [cls |-> "ZodError", statusCode |-> NoNum, status |-> NoNum, code |-> NoStr,
   name |-> "ZodError", message |-> <<>>, details |-> NoDetails]

\* a Prisma.PrismaClientKnownRequestError with the given store code
PrismaError(code) ==
  [cls |-> "PrismaClientKnownRequestError", statusCode |-> NoNum, status |-> NoNum, code |-> code,
   name |-> "PrismaClientKnownRequestError", message |-> <<>>, details |-> NoDetails]

\* new Error(message)
GenericError(message) ==
  [cls |-> "Error", statusCode |-> NoNum, status |-> NoNum, code |-> NoStr,
   name |-> "Error", message |-> message, details |-> NoDetails]

\* a plain object { statusCode, status, message } as thrown by @fastify/rate-limit
PlainError(statusCode, status, message) ==
  [cls |-> "Object", statusCode |-> statusCode, status |-> status, code |-> NoStr,
   name |-> NoStr, message |-> message, details |-> NoDetails]

\* error.code?.toLowerCase() for the codes of the custom error classes
CodeLower(code) ==
  CASE code = "VALIDATION_ERROR" -> "validation_error"
    [] code = "NOT_FOUND" -> "not_found"
    [] code = "CONFLICT" -> "conflict"
    [] OTHER -> code

\* the problem-details object before requestId and statusCode are added
ProblemDetails(type, title, status, detail, instance) ==
  [type |-> type, title |-> title, status |-> status, detail |-> detail, instance |-> instance,
   requestId |-> NoStr, statusCode |-> NoNum, error |-> NoStr, details |-> NoDetails]

\* title of the custom-API-error branch: error.name || 'API Error'
CustomTitle(error) == IF error.name # NoStr THEN error.name ELSE "API Error"

\* the rate-limit test of errorHandler
IsRateLimit(error) ==
  error.statusCode = 429 \/ error.status = 429 \/ MatchesRateLimit(error.message)

\* errorHandler(error, request, reply): the reply it sends
errorHandler(error, request) ==
  LET url == request.url
      pd ==
        IF error.cls = "ZodError"
        THEN ProblemDetails("validation-error", "Validation Error", 400,
                            <<"Request validation failed">>, url)
        ELSE IF error.cls = "PrismaClientKnownRequestError"
        THEN IF error.code = "P2002"
             THEN ProblemDetails("conflict", "Conflict", 409, <<"Resource already exists">>, url)
             ELSE IF error.code = "P2025"
             THEN ProblemDetails("not-found", "Not Found", 404, <<"Resource not found">>, url)
             ELSE ProblemDetails("database-error", "Database Error", 500,
                                 <<"An error occurred while accessing the database">>, url)
        ELSE IF IsRateLimit(error)
        THEN [ProblemDetails("rate-limit-exceeded", "Rate Limit Exceeded", 429,
                             IF error.message # <<>> THEN error.message ELSE <<"Too many requests">>, url)
                EXCEPT !.statusCode = 429, !.error = "Too Many Requests"]
        ELSE IF error.statusCode # NoNum
        THEN [ProblemDetails(IF error.code # NoStr THEN CodeLower(error.code) ELSE "api-error",
                             CustomTitle(error), error.statusCode, error.message, url)
                EXCEPT !.details = IF error.cls = "ValidationError" /\ error.details # NoDetails
                                   THEN error.details ELSE NoDetails]
        ELSE ProblemDetails("internal-server-error", "Internal Server Error", 500,
                            <<"An unexpected error occurred">>, url)
      withId == [pd EXCEPT !.requestId = request.id]
      payload == [withId EXCEPT !.statusCode = IF withId.statusCode # NoNum THEN withId.statusCode
                                                ELSE withId.status]
  IN  [status |-> payload.status, type |-> "application/problem+json", payload |-> payload]

(***************************************************************************)
(* The relational store (migration.sql) behind the Prisma client `db`      *)
(***************************************************************************)
Ids == 1..MaxIds                  \* primary keys (cuid), handed out in creation order
Dates == {1, 2}                   \* instants, as the milliseconds new Date(iso) yields
None == <<>>                      \* an optional character-sequence field that is undefined
Some(v) == <<v>>                  \* an optional character-sequence field that is present

EmptyDb == [project |-> {}, document |-> {}, feature |-> {}, sprint |-> {}, sprintItem |-> <<>>]

\* db.<table>.findUnique({ where: { id } }): the row, as a set of at most one row
FindById(table, id) == {row \in table : row.id = id}

\* a documents table without its unique index
DocumentSlugTakenNoIndex(d, id, projectId, slug) == FALSE

\* UNIQUE INDEX documents_projectId_slug_key, checked for a row written under `id`
DocumentSlugTaken(d, id, projectId, slug) ==
  \E row \in d.document : row.id # id /\ row.projectId = projectId /\ row.slug = slug

\* UNIQUE INDEX features_projectId_featureId_key
FeatureIdTaken(d, id, projectId, featureId) ==
  \E row \in d.feature : row.id # id /\ row.projectId = projectId /\ row.featureId = featureId

\* UNIQUE INDEX sprints_projectId_code_key
SprintCodeTaken(d, id, projectId, code) ==
  \E row \in d.sprint : row.id # id /\ row.projectId = projectId /\ row.code = code

\* FOREIGN KEY (projectId) REFERENCES projects (id)
ProjectExists(d, projectId) == \E p \in d.project : p.id = projectId

\* the result of one store call: the store afterwards and the Prisma error code thrown
DbResult(d, err) == [db |-> d, err |-> err]
NoErr == ""

\* db.project.create
ProjectCreateRow(d, id, name) ==
  DbResult([d EXCEPT !.project = @ \cup {[id |-> id, name |-> name]}], NoErr)

\* db.project.update({ where: { id }, data })
ProjectUpdateRow(d, id, name) ==
  IF FindById(d.project, id) = {} THEN DbResult(d, "P2025")
  ELSE DbResult([d EXCEPT !.project =
                   {IF p.id = id /\ name # None THEN [p EXCEPT !.name = name[1]] ELSE p : p \in @}],
                NoErr)

\* a delete that removes the project row only
CascadeProjectRowOnly(d, id) == [d EXCEPT !.project = {p \in @ : p.id # id}]

\* ON DELETE CASCADE from projects to documents, features, sprints and on to sprint_items
CascadeProject(d, id) ==
  LET gone == {s.id : s \in {s \in d.sprint : s.projectId = id}}
  IN  [project |-> {p \in d.project : p.id # id},
       document |-> {x \in d.document : x.projectId # id},
       feature |-> {x \in d.feature : x.projectId # id},
       sprint |-> {x \in d.sprint : x.projectId # id},
       sprintItem |-> SelectSeq(d.sprintItem, LAMBDA it : it.sprintId \notin gone)]

\* db.project.delete({ where: { id } })
ProjectDeleteRow(d, id) ==
  IF FindById(d.project, id) = {} THEN DbResult(d, "P2025")
  ELSE DbResult(CascadeProject(d, id), NoErr)

\* a create on a documents table without its foreign key
DocumentCreateRowNoForeignKey(d, id, data) ==
  IF DocumentSlugTaken(d, id, data.projectId, data.slug) THEN DbResult(d, "P2002")
  ELSE DbResult([d EXCEPT !.document = @ \cup {[id |-> id, projectId |-> data.projectId,
                                                 kind |-> data.kind, title |-> data.title,
                                                 slug |-> data.slug]}], NoErr)

\* db.document.create({ data })
DocumentCreateRow(d, id, data) ==
  IF ~ProjectExists(d, data.projectId) THEN DbResult(d, "P2003")
  ELSE IF DocumentSlugTaken(d, id, data.projectId, data.slug) THEN DbResult(d, "P2002")
  ELSE DbResult([d EXCEPT !.document = @ \cup {[id |-> id, projectId |-> data.projectId,
                                                 kind |-> data.kind, title |-> data.title,
                                                 slug |-> data.slug]}], NoErr)

\* db.document.update({ where: { id }, data }): only the supplied fields change
DocumentUpdateRow(d, id, data) ==
  LET rows == FindById(d.document, id)
      old == CHOOSE x \in rows : TRUE
      new == [old EXCEPT !.title = IF data.title # None THEN data.title[1] ELSE @,
                         !.slug = IF data.slug # None THEN data.slug[1] ELSE @]
  IN  IF rows = {} THEN DbResult(d, "P2025")
      ELSE IF DocumentSlugTaken(d, id, new.projectId, new.slug) THEN DbResult(d, "P2002")
      ELSE DbResult([d EXCEPT !.document = (@ \ rows) \cup {new}], NoErr)

\* db.document.delete({ where: { id } })
DocumentDeleteRow(d, id) ==
  IF FindById(d.document, id) = {} THEN DbResult(d, "P2025")
  ELSE DbResult([d EXCEPT !.document = {x \in @ : x.id # id}], NoErr)

\* db.feature.create({ data })
FeatureCreateRow(d, id, data) ==
  IF ~ProjectExists(d, data.projectId) THEN DbResult(d, "P2003")
  ELSE IF FeatureIdTaken(d, id, data.projectId, data.featureId) THEN DbResult(d, "P2002")
  ELSE DbResult([d EXCEPT !.feature = @ \cup {[id |-> id, projectId |-> data.projectId,
                                               featureId |-> data.featureId,
                                               status |-> data.status]}], NoErr)

\* db.feature.update({ where: { id }, data })
FeatureUpdateRow(d, id, data) ==
  LET rows == FindById(d.feature, id)
      old == CHOOSE x \in rows : TRUE
      new == [old EXCEPT !.featureId = IF data.featureId # <<>> THEN data.featureId ELSE @,
                         !.status = IF data.status # NoStr THEN data.status ELSE @]
  IN  IF rows = {} THEN DbResult(d, "P2025")
      ELSE IF FeatureIdTaken(d, id, new.projectId, new.featureId) THEN DbResult(d, "P2002")
      ELSE DbResult([d EXCEPT !.feature = (@ \ rows) \cup {new}], NoErr)

\* db.feature.delete({ where: { id } })
FeatureDeleteRow(d, id) ==
  IF FindById(d.feature, id) = {} THEN DbResult(d, "P2025")
  ELSE DbResult([d EXCEPT !.feature = {x \in @ : x.id # id}], NoErr)

\* tx.sprint.create({ data })
SprintCreateRow(d, id, data) ==
  IF ~ProjectExists(d, data.projectId) THEN DbResult(d, "P2003")
  ELSE IF SprintCodeTaken(d, id, data.projectId, data.code) THEN DbResult(d, "P2002")
  ELSE DbResult([d EXCEPT !.sprint = @ \cup {[id |-> id, projectId |-> data.projectId,
                                              code |-> data.code, status |-> data.status,
                                              startDate |-> data.startDate,
                                              endDate |-> data.endDate]}], NoErr)

\* tx.sprint.update({ where: { id }, data }): only the supplied fields change
SprintUpdateRow(d, id, data) ==
  LET rows == FindById(d.sprint, id)
      old == CHOOSE x \in rows : TRUE
      new == [old EXCEPT !.code = IF data.code # <<>> THEN data.code ELSE @,
                         !.status = IF data.status # NoStr THEN data.status ELSE @,
                         !.startDate = IF data.startDate # NoNum THEN data.startDate ELSE @,
                         !.endDate = IF data.endDate # NoNum THEN data.endDate ELSE @]
  IN  IF rows = {} THEN DbResult(d, "P2025")
      ELSE IF SprintCodeTaken(d, id, new.projectId, new.code) THEN DbResult(d, "P2002")
      ELSE DbResult([d EXCEPT !.sprint = (@ \ rows) \cup {new}], NoErr)

\* db.sprint.delete({ where: { id } }), with ON DELETE CASCADE to sprint_items
SprintDeleteRow(d, id) ==
  IF FindById(d.sprint, id) = {} THEN DbResult(d, "P2025")
  ELSE DbResult([d EXCEPT !.sprint = {x \in @ : x.id # id},
                          !.sprintItem = SelectSeq(@, LAMBDA it : it.sprintId # id)], NoErr)

\* tx.sprintItem.create({ data }); `fails` is the store refusing the insert
\* (lost connection, transaction timeout, full disk)
SprintItemCreateRow(d, data, fails) ==
  IF fails THEN DbResult(d, "P1017")
  ELSE IF FindById(d.sprint, data.sprintId) = {} THEN DbResult(d, "P2003")
  ELSE DbResult([d EXCEPT !.sprintItem = Append(@, data)], NoErr)

\* tx.sprintItem.deleteMany({ where: { sprintId } })
SprintItemDeleteMany(d, sprintId) ==
  [d EXCEPT !.sprintItem = SelectSeq(@, LAMBDA it : it.sprintId # sprintId)]

\* the items of one sprint, in insertion order
ItemsOf(d, sprintId) == SelectSeq(d.sprintItem, LAMBDA it : it.sprintId = sprintId)


(***************************************************************************)
(* Requests in flight                                                      *)
(***************************************************************************)
VARIABLES
  db,             \* the store behind the process-wide Prisma client
  nextId,         \* the next primary key the store hands out
  reqs,           \* per slot: the handler suspended at an await, with its locals
  lastResponse,   \* the reply being sent: route, inputs and reply
  call,           \* a function of the code called on its own: its name and arguments
  result,         \* what that call returned
  hits            \* per caller: the requests the rate limiter counted in the current window

NoCall == [fn |-> ""]
Pending == [done |-> FALSE, value |-> <<>>]     \* the call has not returned
Returned(v) == [done |-> TRUE, value |-> v]     \* the call returned v
Callers == {"ip-1", "ip-2"}      \* the addresses requests come from
NoHits == [c \in Callers |-> 0]
pure == <<call, result, hits>>

Slots == {1, 2}                   \* handlers that can be suspended at the same time
Idle == [op |-> "idle", pc |-> "", loc |-> <<>>]
HeaderRequestId == "req-1"        \* the X-Request-Id header the callers send
DefaultLimit == 20

T1 == <<"T", "e", "s", "t", " ", "&", " ", "D", "o", "c", "u", "m", "e", "n", "t", "!">>
T2 == <<"R", "a", "t", "e", "L", "i", "m", "i", "t">>
S1 == <<"t", "e", "s", "t", "-", "d", "o", "c", "u", "m", "e", "n", "t">>
Titles == {T1, T2}                \* document titles sent by callers
ExplicitSlugs == {S1}             \* document slugs sent by callers
Kinds == {"FREEFORM"}             \* document kinds sent on create
ProjectNames == {<<"T", "e", "s", "t", " ", "P", "r", "o", "j", "e", "c", "t">>}  \* project names sent on create
\* the bodies of POST /documents sent by callers
DocBodies == [title : Titles, kind : Kinds, slug : {None} \cup {Some(x) : x \in ExplicitSlugs}]
FeatureIds == {<<"F", "E", "A", "T", "-", "1">>, <<"F", "E", "A", "T", "-", "2">>}   \* feature codes sent by callers
Codes == {<<"S", "P", "R", "-", "1">>, <<"S", "P", "R", "-", "2">>}   \* sprint codes sent by callers
Limits == {NoNum, 1, 2}           \* ?limit= of list requests, NoNum when omitted
Offsets == {NoNum, 1}             \* ?offset= of list requests, NoNum when omitted

\* the request object errorHandler sees: url and the id set by requestIdMiddleware
Request(url) == [url |-> url, id |-> HeaderRequestId]

\* z.string().min(min).max(max)
ValidLength(s, min, max) == Len(s) >= min /\ Len(s) <= max

\* createDocumentSchema.safeParse(body).success for the fields kind, title and slug
createDocumentSchema(body) ==
  /\ body.kind \in {"PRD", "TECH_OVERVIEW", "SPRINT_OVERVIEW", "SPRINT", "FREEFORM"}
  /\ ValidLength(body.title, 1, 200)
  /\ body.slug # None =>
        /\ ValidLength(body.slug[1], 1, 100)
        /\ \A i \in 1..Len(body.slug[1]) : body.slug[1][i] \in LowerAlnum \cup {"-"}

\* reply.status(status) and the returned body
Reply(status, payload) == [status |-> status, type |-> "application/json", payload |-> payload]

\* reply.status(status).send({ type, title, status, detail, requestId }) of the
\* feature and sprint routes, requestId being the x-request-id header
RouteProblem(type, title, status, detail) ==
  Reply(status, [ProblemDetails(type, title, status, detail, NoStr) EXCEPT !.requestId = HeaderRequestId])

\* reply.status(400) and { error, details } of the project and document routes
SafeParseFailed == Reply(400, [error |-> "Validation failed", details |-> <<"issues">>])

\* what is recorded of an answered request
Answered(op, args, reply) == [op |-> op, args |-> args, reply |-> reply]
NoResponse == Answered("", <<>>, Reply(0, <<>>))

\* no reply is waiting to go out
Quiet == lastResponse = NoResponse

\* the ids of a set of rows in ascending order (orderBy: { createdAt: 'asc' })
RECURSIVE SortedIds(_)
SortedIds(S) ==
  IF S = {} THEN <<>>
  ELSE LET m == CHOOSE x \in S : \A y \in S : x <= y
       IN  <<m>> \o SortedIds(S \ {m})

\* findMany({ take, skip }) over ordered rows; an undefined take or skip is no bound
TakeSkip(ids, take, skip) ==
  LET from == skip + 1
      to == IF take = NoNum THEN Len(ids) ELSE IF skip + take < Len(ids) THEN skip + take ELSE Len(ids)
  IN  SubSeq(ids, from, to)

\* z.coerce.number().min(1).max(100).default(20) applied to ?limit=
QueryLimit(limit) == IF limit = NoNum THEN DefaultLimit ELSE limit

\* the lowest free slot takes the next handler that suspends
FreeSlot(r) == Quiet /\ reqs[r] = Idle /\ \A q \in Slots : q < r => reqs[q] # Idle

\* the handler of slot r resumes at pc
At(r, op, pc) == Quiet /\ reqs[r].op = op /\ reqs[r].pc = pc

\* the reply leaves; the handler is gone
Send ==
  /\ ~Quiet
  /\ lastResponse' = NoResponse
  /\ UNCHANGED <<db, nextId, reqs>>
  /\ UNCHANGED pure

(***************************************************************************)
(* routes/projects.ts                                                      *)
(***************************************************************************)
\* POST /projects
ProjectCreate(names) ==
  /\ Quiet
  /\ \E name \in names :
       IF ~ValidLength(name, 1, 100)
       THEN /\ lastResponse' = Answered("POST /projects", [name |-> name], SafeParseFailed)
            /\ UNCHANGED <<db, nextId>>
       ELSE LET res == ProjectCreateRow(db, nextId, name)
            IN  /\ nextId <= MaxIds
                /\ db' = res.db
                /\ nextId' = nextId + 1
                /\ lastResponse' = Answered("POST /projects", [name |-> name],
                                            Reply(201, [id |-> nextId, name |-> name]))
  /\ UNCHANGED reqs
  /\ UNCHANGED pure

\* GET /projects/:id
ProjectGet ==
  /\ Quiet
  /\ \E id \in Ids :
       LET rows == FindById(db.project, id)
           row == CHOOSE p \in rows : TRUE
           count == [documents |-> Cardinality({x \in db.document : x.projectId = id}),
                     features |-> Cardinality({x \in db.feature : x.projectId = id}),
                     sprints |-> Cardinality({x \in db.sprint : x.projectId = id})]
       IN  lastResponse' = Answered("GET /projects/:id", [id |-> id],
             IF rows = {}
             THEN errorHandler(NotFoundError(MsgProjectNotFound), Request("/projects/:id"))
             ELSE Reply(200, [id |-> row.id, name |-> row.name, count |-> count]))
  /\ UNCHANGED <<db, nextId, reqs>>
  /\ UNCHANGED pure

\* GET /projects: the query string is not read, every project is returned
ProjectList(limits, offsets) ==
  /\ Quiet
  /\ \E limit \in limits, offset \in offsets :
       LET projects == SortedIds({p.id : p \in db.project})
       IN  lastResponse' = Answered("GET /projects",
                                    [projectId |-> NoNum, limit |-> limit, offset |-> offset],
                                    Reply(200, [page |-> projects, total |-> Len(projects)]))
  /\ UNCHANGED <<db, nextId, reqs>>
  /\ UNCHANGED pure

\* PATCH /projects/:id
ProjectUpdate(names) ==
  /\ Quiet
  /\ \E id \in Ids, name \in names :
       LET res == ProjectUpdateRow(db, id, name)
       IN  /\ db' = res.db
           /\ lastResponse' = Answered("PATCH /projects/:id", [id |-> id, name |-> name, before |-> db],
                IF res.err = "P2025"
                THEN errorHandler(NotFoundError(MsgProjectNotFound), Request("/projects/:id"))
                ELSE Reply(200, CHOOSE x \in FindById(res.db.project, id) : TRUE))
  /\ UNCHANGED <<nextId, reqs>>
  /\ UNCHANGED pure

\* DELETE /projects/:id
ProjectDelete ==
  /\ Quiet
  /\ \E id \in Ids :
       LET res == ProjectDeleteRow(db, id)
       IN  /\ db' = res.db
           /\ lastResponse' = Answered("DELETE /projects/:id", [id |-> id, before |-> db],
                IF res.err = "P2025"
                THEN errorHandler(NotFoundError(MsgProjectNotFound), Request("/projects/:id"))
                ELSE Reply(204, <<>>))
  /\ UNCHANGED <<nextId, reqs>>
  /\ UNCHANGED pure

(***************************************************************************)
(* routes/documents.ts                                                     *)
(***************************************************************************)
\* the slug POST /documents stores: data.slug || generateSlug(data.title)
SlugOrGenerated(slug, title) == IF slug # None /\ slug[1] # <<>> THEN slug[1] ELSE generateSlug(title)

\* `Document with slug '${slug}' already exists in this project`
DocConflictMessage(slug) ==
  <<"D", "o", "c", "u", "m", "e", "n", "t", " ", "w", "i", "t", "h", " ", "s", "l",
    "u", "g", " ", "'">>
  \o slug \o
  <<"'", " ", "a", "l", "r", "e", "a", "d", "y", " ", "e", "x", "i", "s", "t", "s",
    " ", "i", "n", " ", "t", "h", "i", "s", " ", "p", "r", "o", "j", "e", "c", "t">>

\* POST /documents up to its first await: safeParse of the body,
\* db.project.findUnique
DocCreateFindProject(r, bodies) ==
  /\ FreeSlot(r)
  /\ \E projectId \in Ids, body \in bodies :
       IF ~createDocumentSchema(body)
       THEN /\ lastResponse' = Answered("POST /documents", [projectId |-> projectId, body |-> body],
                                        SafeParseFailed)
            /\ UNCHANGED reqs
       ELSE IF ProjectExists(db, projectId)
       THEN /\ reqs' = [reqs EXCEPT ![r] = [op |-> "POST /documents", pc |-> "create",
                                            loc |-> [projectId |-> projectId, body |-> body]]]
            /\ UNCHANGED lastResponse
       ELSE /\ lastResponse' = Answered("POST /documents", [projectId |-> projectId],
                 errorHandler(NotFoundError(MsgProjectNotFound), Request("/documents")))
            /\ UNCHANGED reqs
  /\ UNCHANGED <<db, nextId>>
  /\ UNCHANGED pure

\* POST /documents from db.document.create to the reply
DocCreateInsert(r) ==
  /\ At(r, "POST /documents", "create")
  /\ LET title == reqs[r].loc.body.title
         kind == reqs[r].loc.body.kind
         slug == reqs[r].loc.body.slug
     IN
       LET data == [projectId |-> reqs[r].loc.projectId, kind |-> kind, title |-> title,
                    slug |-> SlugOrGenerated(slug, title)]
           res == DocumentCreateRow(db, nextId, data)
       IN  /\ res.err = NoErr => nextId <= MaxIds
           /\ db' = res.db
           /\ nextId' = IF res.err = NoErr THEN nextId + 1 ELSE nextId
           /\ lastResponse' = Answered("POST /documents",
                                       [projectId |-> data.projectId, title |-> title, slug |-> slug],
                IF res.err = NoErr THEN Reply(201, [id |-> nextId] @@ data)
                ELSE IF res.err = "P2002"
                THEN errorHandler(ConflictError(DocConflictMessage(data.slug)), Request("/documents"))
                ELSE errorHandler(PrismaError(res.err), Request("/documents")))
  /\ reqs' = [reqs EXCEPT ![r] = Idle]
  /\ UNCHANGED pure

\* GET /documents/:id
DocGet ==
  /\ Quiet
  /\ \E id \in Ids :
       LET rows == FindById(db.document, id)
       IN  lastResponse' = Answered("GET /documents/:id", [id |-> id],
             IF rows = {}
             THEN errorHandler(NotFoundError(MsgDocumentNotFound), Request("/documents/:id"))
             ELSE Reply(200, CHOOSE x \in rows : TRUE))
  /\ UNCHANGED <<db, nextId, reqs>>
  /\ UNCHANGED pure

\* the where clause of GET /documents
DocWhere(d, where) ==
  {x \in d.document : /\ where.projectId # NoNum => x.projectId = where.projectId
                      /\ where.kind # NoStr => x.kind = where.kind}

\* GET /documents, whichever of the two queries of Promise.all the store runs
\* first: findMany (the query is not parsed, so take and skip are undefined) or count
DocListFirst(r) ==
  /\ FreeSlot(r)
  /\ \E projectId \in {NoNum} \cup Ids, kind \in {NoStr} \cup Kinds, first \in {"findMany", "count"} :
       LET where == [projectId |-> projectId, kind |-> kind]
           ids == SortedIds({x.id : x \in DocWhere(db, where)})
       IN  reqs' = [reqs EXCEPT ![r] =
                      [op |-> "GET /documents", pc |-> IF first = "count" THEN "findMany" ELSE "count",
                       loc |-> [where |-> where,
                                documents |-> IF first = "findMany" THEN TakeSkip(ids, NoNum, NoNum) ELSE <<>>,
                                total |-> IF first = "count" THEN Len(ids) ELSE 0]]]
  /\ UNCHANGED <<db, nextId, lastResponse>>
  /\ UNCHANGED pure

\* GET /documents: the other query of Promise.all, then the reply
DocListSecond(r) ==
  /\ Quiet
  /\ reqs[r].op = "GET /documents"
  /\ LET loc == reqs[r].loc
         ids == SortedIds({x.id : x \in DocWhere(db, loc.where)})
         documents == IF reqs[r].pc = "findMany" THEN TakeSkip(ids, NoNum, NoNum) ELSE loc.documents
         total == IF reqs[r].pc = "count" THEN Len(ids) ELSE loc.total
     IN  lastResponse' = Answered("GET /documents",
                                  [projectId |-> loc.where.projectId, limit |-> NoNum, offset |-> NoNum],
                                  Reply(200, [page |-> documents, total |-> total]))
  /\ reqs' = [reqs EXCEPT ![r] = Idle]
  /\ UNCHANGED <<db, nextId>>
  /\ UNCHANGED pure

\* the data PATCH /documents/:id hands to the store: a title without a slug
\* brings a generated slug
DocUpdateData(title, slug) ==
  [title |-> title,
   slug |-> IF title # None /\ title[1] # <<>> /\ (slug = None \/ slug[1] = <<>>)
            THEN Some(generateSlug(title[1])) ELSE slug]

\* PATCH /documents/:id
DocUpdate(titles, slugs) ==
  /\ Quiet
  /\ \E id \in Ids, title \in {None} \cup {Some(x) : x \in titles},
        slug \in {None} \cup {Some(x) : x \in slugs} :
       LET data == DocUpdateData(title, slug)
           res == DocumentUpdateRow(db, id, data)
       IN  /\ db' = res.db
           /\ lastResponse' = Answered("PATCH /documents/:id",
                                       [id |-> id, title |-> title, slug |-> slug, before |-> db],
                IF res.err = NoErr THEN Reply(200, CHOOSE x \in FindById(res.db.document, id) : TRUE)
                ELSE IF res.err = "P2025"
                THEN errorHandler(NotFoundError(MsgDocumentNotFound), Request("/documents/:id"))
                ELSE errorHandler(ConflictError(DocConflictMessage(IF data.slug = None THEN <<>> ELSE data.slug[1])),
                                  Request("/documents/:id")))
  /\ UNCHANGED <<nextId, reqs>>
  /\ UNCHANGED pure

\* DELETE /documents/:id
DocDelete ==
  /\ Quiet
  /\ \E id \in Ids :
       LET res == DocumentDeleteRow(db, id)
       IN  /\ db' = res.db
           /\ lastResponse' = Answered("DELETE /documents/:id", [id |-> id],
                IF res.err = "P2025"
                THEN errorHandler(NotFoundError(MsgDocumentNotFound), Request("/documents/:id"))
                ELSE Reply(204, <<>>))
  /\ UNCHANGED <<nextId, reqs>>
  /\ UNCHANGED pure

(***************************************************************************)
(* routes/features.ts                                                      *)
(***************************************************************************)
\* the catch block of the feature routes for an error that is not a ZodError
\* /^FEAT-\d+$/ and /^SPR-\d+$/: the prefix, then one digit or more, to the end
MatchesKeyFormat(prefix, s) ==
  /\ Len(s) > Len(prefix)
  /\ SubSeq(s, 1, Len(prefix)) = prefix
  /\ \A i \in (Len(prefix) + 1)..Len(s) : s[i] \in Digits

\* the reply of the catch block of the feature and sprint routes to a ZodError
RouteValidationFailed ==
  LET r == RouteProblem("validation-failed", "Validation Failed", 422,
                        <<"Request body contains invalid data">>)
  IN  [r EXCEPT !.payload = @ @@ [issues |-> <<"issues">>]]

FeatureInternalError(detail) ==
  RouteProblem("internal-error", "Internal Server Error", 500, detail)

\* where: { projectId_featureId: { projectId, featureId } }
\* a lookup of the natural key that leaves the project out
FindFeatureAnyProject(d, projectId, featureId) ==
  {x \in d.feature : x.featureId = featureId}

FindFeature(d, projectId, featureId) ==
  {x \in d.feature : x.projectId = projectId /\ x.featureId = featureId}

\* POST /features up to its first await: parse the body, db.project.findUnique
FeatCreateFindProject(r, featureIds) ==
  /\ FreeSlot(r)
  /\ \E projectId \in Ids, featureId \in featureIds :
       IF ~MatchesKeyFormat(<<"F", "E", "A", "T", "-">>, featureId)
       THEN /\ lastResponse' = Answered("POST /features", [projectId |-> projectId, key |-> featureId],
                                        RouteValidationFailed)
            /\ UNCHANGED reqs
       ELSE IF ProjectExists(db, projectId)
       THEN /\ reqs' = [reqs EXCEPT ![r] = [op |-> "POST /features", pc |-> "findFeature",
                                            loc |-> [projectId |-> projectId, featureId |-> featureId]]]
            /\ UNCHANGED lastResponse
       ELSE /\ lastResponse' = Answered("POST /features", [projectId |-> projectId, key |-> featureId],
                 RouteProblem("not-found", "Project Not Found", 404,
                              <<"Project with ID ", projectId, " not found">>))
            /\ UNCHANGED reqs
  /\ UNCHANGED <<db, nextId>>
  /\ UNCHANGED pure

\* POST /features: db.feature.findUnique on the natural key
FeatCreateFindFeature(r) ==
  /\ At(r, "POST /features", "findFeature")
  /\ LET loc == reqs[r].loc
     IN  IF FindFeature(db, loc.projectId, loc.featureId) # {}
         THEN /\ lastResponse' = Answered("POST /features", [projectId |-> loc.projectId, key |-> loc.featureId],
                   RouteProblem("conflict", "Feature Already Exists", 409,
                                <<"Feature ", loc.featureId, " already exists in project ", loc.projectId>>))
              /\ reqs' = [reqs EXCEPT ![r] = Idle]
         ELSE /\ reqs' = [reqs EXCEPT ![r].pc = "create"]
              /\ UNCHANGED lastResponse
  /\ UNCHANGED <<db, nextId>>
  /\ UNCHANGED pure

\* POST /features: db.feature.create, then the reply
FeatCreateInsert(r) ==
  /\ At(r, "POST /features", "create")
  /\ LET loc == reqs[r].loc
         data == [projectId |-> loc.projectId, featureId |-> loc.featureId, status |-> "PLANNED"]
         res == FeatureCreateRow(db, nextId, data)
     IN  /\ res.err = NoErr => nextId <= MaxIds
         /\ db' = res.db
         /\ nextId' = IF res.err = NoErr THEN nextId + 1 ELSE nextId
         /\ lastResponse' = Answered("POST /features", [projectId |-> loc.projectId, key |-> loc.featureId],
              IF res.err = NoErr THEN Reply(201, [feature |-> [id |-> nextId] @@ data])
              ELSE FeatureInternalError(<<"An unexpected error occurred while creating the feature">>))
  /\ reqs' = [reqs EXCEPT ![r] = Idle]
  /\ UNCHANGED pure

\* GET /features/:id
FeatGet ==
  /\ Quiet
  /\ \E id \in Ids :
       LET rows == FindById(db.feature, id)
       IN  lastResponse' = Answered("GET /features/:id", [id |-> id],
             IF rows = {}
             THEN RouteProblem("not-found", "Feature Not Found", 404, <<"Feature with ID ", id, " not found">>)
             ELSE Reply(200, [feature |-> CHOOSE x \in rows : TRUE]))
  /\ UNCHANGED <<db, nextId, reqs>>
  /\ UNCHANGED pure

\* the where clause of GET /features
FeatWhere(d, where) ==
  {x \in d.feature : where.projectId # NoNum => x.projectId = where.projectId}

\* GET /features up to its first await: parse the query, db.feature.count
FeatListCount(r, limits, offsets) ==
  /\ FreeSlot(r)
  /\ \E projectId \in {NoNum} \cup Ids, limit \in limits, offset \in offsets :
       LET where == [projectId |-> projectId]
       IN  reqs' = [reqs EXCEPT ![r] =
                      [op |-> "GET /features", pc |-> "findMany",
                       loc |-> [where |-> where, limit |-> limit, offset |-> offset,
                                total |-> Cardinality(FeatWhere(db, where))]]]
  /\ UNCHANGED <<db, nextId, lastResponse>>
  /\ UNCHANGED pure

\* GET /features: db.feature.findMany, then the reply
FeatListFindMany(r) ==
  /\ At(r, "GET /features", "findMany")
  /\ LET loc == reqs[r].loc
         ids == SortedIds({x.id : x \in FeatWhere(db, loc.where)})
     IN  lastResponse' = Answered("GET /features",
                                  [projectId |-> loc.where.projectId, limit |-> loc.limit, offset |-> loc.offset],
                                  Reply(200, [page |-> TakeSkip(ids, QueryLimit(loc.limit), loc.offset),
                                              total |-> loc.total]))
  /\ reqs' = [reqs EXCEPT ![r] = Idle]
  /\ UNCHANGED <<db, nextId>>
  /\ UNCHANGED pure

\* PATCH /features/:id up to its first await: parse the body, db.feature.findUnique
FeatUpdateFind(r) ==
  /\ FreeSlot(r)
  /\ \E id \in Ids, featureId \in {<<>>} \cup FeatureIds :
       LET rows == FindById(db.feature, id)
           existingFeature == CHOOSE x \in rows : TRUE
       IN  IF rows = {}
           THEN /\ lastResponse' = Answered("PATCH /features/:id", [id |-> id, key |-> featureId],
                     RouteProblem("not-found", "Feature Not Found", 404, <<"Feature with ID ", id, " not found">>))
                /\ UNCHANGED reqs
           ELSE /\ reqs' = [reqs EXCEPT ![r] =
                              [op |-> "PATCH /features/:id",
                               pc |-> IF featureId # <<>> /\ featureId # existingFeature.featureId
                                      THEN "findConflict" ELSE "update",
                               loc |-> [id |-> id, featureId |-> featureId,
                                        projectId |-> existingFeature.projectId]]]
                /\ UNCHANGED lastResponse
  /\ UNCHANGED <<db, nextId>>
  /\ UNCHANGED pure

\* PATCH /features/:id: db.feature.findUnique on the new natural key
FeatUpdateFindConflict(r) ==
  /\ At(r, "PATCH /features/:id", "findConflict")
  /\ LET loc == reqs[r].loc
     IN  IF FindFeature(db, loc.projectId, loc.featureId) # {}
         THEN /\ lastResponse' = Answered("PATCH /features/:id", [id |-> loc.id, key |-> loc.featureId],
                   RouteProblem("conflict", "Feature ID Conflict", 409,
                                <<"Feature ", loc.featureId, " already exists in this project">>))
              /\ reqs' = [reqs EXCEPT ![r] = Idle]
         ELSE /\ reqs' = [reqs EXCEPT ![r].pc = "update"]
              /\ UNCHANGED lastResponse
  /\ UNCHANGED <<db, nextId>>
  /\ UNCHANGED pure

\* PATCH /features/:id: db.feature.update, then the reply
FeatUpdateWrite(r) ==
  /\ At(r, "PATCH /features/:id", "update")
  /\ LET loc == reqs[r].loc
         res == FeatureUpdateRow(db, loc.id, [featureId |-> loc.featureId, status |-> NoStr])
     IN  /\ db' = res.db
         /\ lastResponse' = Answered("PATCH /features/:id", [id |-> loc.id, key |-> loc.featureId],
              IF res.err = NoErr THEN Reply(200, [feature |-> CHOOSE x \in FindById(res.db.feature, loc.id) : TRUE])
              ELSE FeatureInternalError(<<"An unexpected error occurred while updating the feature">>))
  /\ reqs' = [reqs EXCEPT ![r] = Idle]
  /\ UNCHANGED nextId
  /\ UNCHANGED pure

\* DELETE /features/:id up to its first await: db.feature.findUnique
FeatDeleteFind(r) ==
  /\ FreeSlot(r)
  /\ \E id \in Ids :
       IF FindById(db.feature, id) = {}
       THEN /\ lastResponse' = Answered("DELETE /features/:id", [id |-> id],
                 RouteProblem("not-found", "Feature Not Found", 404, <<"Feature with ID ", id, " not found">>))
            /\ UNCHANGED reqs
       ELSE /\ reqs' = [reqs EXCEPT ![r] = [op |-> "DELETE /features/:id", pc |-> "delete", loc |-> [id |-> id]]]
            /\ UNCHANGED lastResponse
  /\ UNCHANGED <<db, nextId>>
  /\ UNCHANGED pure

\* DELETE /features/:id: db.feature.delete, then the reply
FeatDeleteWrite(r) ==
  /\ At(r, "DELETE /features/:id", "delete")
  /\ LET id == reqs[r].loc.id
         res == FeatureDeleteRow(db, id)
     IN  /\ db' = res.db
         /\ lastResponse' = Answered("DELETE /features/:id", [id |-> id],
              IF res.err = NoErr THEN Reply(204, <<>>)
              ELSE FeatureInternalError(<<"An unexpected error occurred while deleting the feature">>))
  /\ reqs' = [reqs EXCEPT ![r] = Idle]
  /\ UNCHANGED nextId
  /\ UNCHANGED pure

(***************************************************************************)
(* routes/sprints.ts                                                       *)
(***************************************************************************)
ItemA == [text |-> "a", checked |-> FALSE, order |-> 0]
ItemB == [text |-> "b", checked |-> TRUE, order |-> 5]
\* the items arrays sent by callers
ItemLists == UNION {[1..n -> {ItemA, ItemB}] : n \in 0..MaxItems}

\* the row written for items[i]: order: item.order || i, i counting from 0
ItemRow(sprintId, item, i) ==
  [sprintId |-> sprintId, text |-> item.text, checked |-> item.checked,
   order |-> IF item.order # 0 THEN item.order ELSE i - 1]

\* the loop over tx.sprintItem.create from items[i] on; the insert of
\* items[failAt] is refused by the store.  An error ends the loop where it is.
RECURSIVE CreateItems(_, _, _, _, _)
CreateItems(d, sprintId, items, i, failAt) ==
  IF i > Len(items) THEN DbResult(d, NoErr)
  ELSE LET res == SprintItemCreateRow(d, ItemRow(sprintId, items[i], i), failAt = i)
       IN  IF res.err # NoErr THEN res
           ELSE CreateItems(res.db, sprintId, items, i + 1, failAt)

\* a transaction that keeps what was written before the error
TransactionNoRollback(before, res) == res

\* db.$transaction(async (tx) => ...): the writes of the callback are committed
\* together, or none is when the callback throws
Transaction(before, res) == IF res.err # NoErr THEN DbResult(before, res.err) ELSE res

\* the callback of the transaction of POST /sprints
SprintCreateBody(d, id, data, items, failAt) ==
  LET res == SprintCreateRow(d, id, data)
  IN  IF res.err # NoErr THEN res ELSE CreateItems(res.db, id, items, 1, failAt)

\* the callback of the transaction of PATCH /sprints/:id
SprintUpdateBody(d, id, updates, items, failAt) ==
  LET res == SprintUpdateRow(d, id, updates)
  IN  IF res.err # NoErr THEN res
      ELSE IF items = None THEN res
      ELSE CreateItems(SprintItemDeleteMany(res.db, id), id, items[1], 1, failAt)

\* a POST /sprints without its date check
CreateDatesNotChecked(startDate, endDate) == FALSE

\* the date check of POST /sprints: both dates given and endDate <= startDate
CreateDatesRejected(startDate, endDate) ==
  startDate # NoNum /\ endDate # NoNum /\ endDate <= startDate

\* the date check of PATCH /sprints/:id, a date not sent being the one read before
UpdateDatesRejected(updates, existingSprint) ==
  LET startDate == IF updates.startDate # NoNum THEN updates.startDate ELSE existingSprint.startDate
      endDate == IF updates.endDate # NoNum THEN updates.endDate ELSE existingSprint.endDate
  IN  startDate # NoNum /\ endDate # NoNum /\ endDate <= startDate

\* the catch block of the sprint routes for an error that is not a ZodError
SprintInternalError(detail) ==
  RouteProblem("internal-error", "Internal Server Error", 500, detail)

\* the 422 reply of the date checks
SprintDatesProblem ==
  RouteProblem("validation-failed", "Validation Failed", 422, <<"End date must be after start date">>)

\* where: { projectId_code: { projectId, code } }
FindSprint(d, projectId, code) ==
  {x \in d.sprint : x.projectId = projectId /\ x.code = code}

\* POST /sprints up to its first await: parse the body, db.project.findUnique
SprintCreateFindProject(r, codes) ==
  /\ FreeSlot(r)
  /\ \E projectId \in Ids, code \in codes :
       IF ~MatchesKeyFormat(<<"S", "P", "R", "-">>, code)
       THEN /\ lastResponse' = Answered("POST /sprints", [projectId |-> projectId, key |-> code],
                                        RouteValidationFailed)
            /\ UNCHANGED reqs
       ELSE IF ProjectExists(db, projectId)
       THEN /\ reqs' = [reqs EXCEPT ![r] = [op |-> "POST /sprints", pc |-> "findSprint",
                                            loc |-> [projectId |-> projectId, code |-> code]]]
            /\ UNCHANGED lastResponse
       ELSE /\ lastResponse' = Answered("POST /sprints", [projectId |-> projectId, key |-> code],
                 RouteProblem("not-found", "Project Not Found", 404,
                              <<"Project with ID ", projectId, " not found">>))
            /\ UNCHANGED reqs
  /\ UNCHANGED <<db, nextId>>
  /\ UNCHANGED pure

\* POST /sprints: db.sprint.findUnique on the natural key
SprintCreateFindSprint(r) ==
  /\ At(r, "POST /sprints", "findSprint")
  /\ LET loc == reqs[r].loc
     IN  IF FindSprint(db, loc.projectId, loc.code) # {}
         THEN /\ lastResponse' = Answered("POST /sprints", [projectId |-> loc.projectId, key |-> loc.code],
                   RouteProblem("conflict", "Sprint Already Exists", 409,
                                <<"Sprint ", loc.code, " already exists in project ", loc.projectId>>))
              /\ reqs' = [reqs EXCEPT ![r] = Idle]
         ELSE /\ reqs' = [reqs EXCEPT ![r].pc = "create"]
              /\ UNCHANGED lastResponse
  /\ UNCHANGED <<db, nextId>>
  /\ UNCHANGED pure

\* POST /sprints: the date check, the transaction and the reply; the dates and
\* items of the body are first used here
SprintCreateTx(r, dates, itemLists) ==
  /\ At(r, "POST /sprints", "create")
  /\ \E startDate \in {NoNum} \cup dates, endDate \in {NoNum} \cup dates, items \in itemLists :
     \E failAt \in 0..Len(items) :
       LET loc == reqs[r].loc
           data == [projectId |-> loc.projectId, code |-> loc.code, status |-> "PLANNED",
                    startDate |-> startDate, endDate |-> endDate]
           rejected == CreateDatesRejected(startDate, endDate)
           res == IF rejected THEN DbResult(db, NoErr)
                  ELSE Transaction(db, SprintCreateBody(db, nextId, data, items, failAt))
           created == ~rejected /\ res.err = NoErr
       IN  /\ created => nextId <= MaxIds
           /\ db' = res.db
           /\ nextId' = IF created THEN nextId + 1 ELSE nextId
           /\ lastResponse' = Answered("POST /sprints",
                [projectId |-> loc.projectId, key |-> loc.code, startDate |-> startDate,
                 endDate |-> endDate, items |-> items, failAt |-> failAt, id |-> nextId],
                IF rejected THEN SprintDatesProblem
                ELSE IF res.err = NoErr
                THEN Reply(201, [sprint |-> [id |-> nextId] @@ data, items |-> ItemsOf(res.db, nextId)])
                ELSE SprintInternalError(<<"An unexpected error occurred while creating the sprint">>))
  /\ reqs' = [reqs EXCEPT ![r] = Idle]
  /\ UNCHANGED pure

\* items: { orderBy: { order: 'asc' } } of GET /sprints/:id
RECURSIVE OrderAsc(_)
OrderAsc(items) ==
  IF items = <<>> THEN <<>>
  ELSE LET least == CHOOSE i \in 1..Len(items) :
                      /\ \A j \in 1..Len(items) : items[i].order <= items[j].order
                      /\ \A j \in 1..(i - 1) : items[j].order # items[i].order
       IN  <<items[least]>> \o OrderAsc(SubSeq(items, 1, least - 1) \o SubSeq(items, least + 1, Len(items)))

\* GET /sprints/:id
SprintGet ==
  /\ Quiet
  /\ \E id \in Ids :
       LET rows == FindById(db.sprint, id)
       IN  lastResponse' = Answered("GET /sprints/:id", [id |-> id],
             IF rows = {}
             THEN RouteProblem("not-found", "Sprint Not Found", 404, <<"Sprint with ID ", id, " not found">>)
             ELSE Reply(200, [sprint |-> CHOOSE x \in rows : TRUE, items |-> OrderAsc(ItemsOf(db, id))]))
  /\ UNCHANGED <<db, nextId, reqs>>
  /\ UNCHANGED pure

\* the where clause of GET /sprints
SprintWhere(d, where) ==
  {x \in d.sprint : where.projectId # NoNum => x.projectId = where.projectId}

\* GET /sprints up to its first await: parse the query, db.sprint.count
SprintListCount(r, limits, offsets) ==
  /\ FreeSlot(r)
  /\ \E projectId \in {NoNum} \cup Ids, limit \in limits, offset \in offsets :
       LET where == [projectId |-> projectId]
       IN  reqs' = [reqs EXCEPT ![r] =
                      [op |-> "GET /sprints", pc |-> "findMany",
                       loc |-> [where |-> where, limit |-> limit, offset |-> offset,
                                total |-> Cardinality(SprintWhere(db, where))]]]
  /\ UNCHANGED <<db, nextId, lastResponse>>
  /\ UNCHANGED pure

\* GET /sprints: db.sprint.findMany, then the reply
SprintListFindMany(r) ==
  /\ At(r, "GET /sprints", "findMany")
  /\ LET loc == reqs[r].loc
         ids == SortedIds({x.id : x \in SprintWhere(db, loc.where)})
     IN  lastResponse' = Answered("GET /sprints",
                                  [projectId |-> loc.where.projectId, limit |-> loc.limit, offset |-> loc.offset],
                                  Reply(200, [page |-> TakeSkip(ids, QueryLimit(loc.limit), loc.offset),
                                              total |-> loc.total]))
  /\ reqs' = [reqs EXCEPT ![r] = Idle]
  /\ UNCHANGED <<db, nextId>>
  /\ UNCHANGED pure

\* PATCH /sprints/:id up to its first await: parse the body, db.sprint.findUnique
\* with its items
SprintUpdateFind(r, codes) ==
  /\ FreeSlot(r)
  /\ \E id \in Ids, code \in {<<>>} \cup codes :
       LET rows == FindById(db.sprint, id)
           existingSprint == CHOOSE x \in rows : TRUE
       IN  IF rows = {}
           THEN /\ lastResponse' = Answered("PATCH /sprints/:id", [id |-> id, key |-> code],
                     RouteProblem("not-found", "Sprint Not Found", 404, <<"Sprint with ID ", id, " not found">>))
                /\ UNCHANGED reqs
           ELSE /\ reqs' = [reqs EXCEPT ![r] =
                              [op |-> "PATCH /sprints/:id",
                               pc |-> IF code # <<>> /\ code # existingSprint.code
                                      THEN "findConflict" ELSE "update",
                               loc |-> [id |-> id, code |-> code, existingSprint |-> existingSprint,
                                        items |-> ItemsOf(db, id)]]]
                /\ UNCHANGED lastResponse
  /\ UNCHANGED <<db, nextId>>
  /\ UNCHANGED pure

\* PATCH /sprints/:id: db.sprint.findUnique on the new natural key
SprintUpdateFindConflict(r) ==
  /\ At(r, "PATCH /sprints/:id", "findConflict")
  /\ LET loc == reqs[r].loc
     IN  IF FindSprint(db, loc.existingSprint.projectId, loc.code) # {}
         THEN /\ lastResponse' = Answered("PATCH /sprints/:id", [id |-> loc.id, key |-> loc.code],
                   RouteProblem("conflict", "Sprint Code Conflict", 409,
                                <<"Sprint ", loc.code, " already exists in this project">>))
              /\ reqs' = [reqs EXCEPT ![r] = Idle]
         ELSE /\ reqs' = [reqs EXCEPT ![r].pc = "update"]
              /\ UNCHANGED lastResponse
  /\ UNCHANGED <<db, nextId>>
  /\ UNCHANGED pure

\* PATCH /sprints/:id: the date check against the sprint read before, the
\* transaction and the reply; the dates and items of the body are first used here
SprintUpdateTx(r, startDates, endDates, itemLists) ==
  /\ At(r, "PATCH /sprints/:id", "update")
  /\ \E startDate \in {NoNum} \cup startDates, endDate \in {NoNum} \cup endDates,
        items \in {None} \cup {Some(l) : l \in itemLists} :
     \E failAt \in 0..(IF items = None THEN 0 ELSE Len(items[1])) :
       LET loc == reqs[r].loc
           updates == [code |-> loc.code, status |-> NoStr, startDate |-> startDate, endDate |-> endDate]
           rejected == UpdateDatesRejected(updates, loc.existingSprint)
           res == IF rejected THEN DbResult(db, NoErr)
                  ELSE Transaction(db, SprintUpdateBody(db, loc.id, updates, items, failAt))
       IN  /\ db' = res.db
           /\ lastResponse' = Answered("PATCH /sprints/:id",
                [id |-> loc.id, key |-> loc.code, startDate |-> startDate, endDate |-> endDate,
                 items |-> items, failAt |-> failAt, before |-> db],
                IF rejected THEN SprintDatesProblem
                ELSE IF res.err = NoErr
                THEN Reply(200, [sprint |-> CHOOSE x \in FindById(res.db.sprint, loc.id) : TRUE,
                                 items |-> IF items = None THEN loc.items ELSE ItemsOf(res.db, loc.id)])
                ELSE SprintInternalError(<<"An unexpected error occurred while updating the sprint">>))
  /\ reqs' = [reqs EXCEPT ![r] = Idle]
  /\ UNCHANGED nextId
  /\ UNCHANGED pure

\* DELETE /sprints/:id up to its first await: db.sprint.findUnique
SprintDeleteFind(r) ==
  /\ FreeSlot(r)
  /\ \E id \in Ids :
       IF FindById(db.sprint, id) = {}
       THEN /\ lastResponse' = Answered("DELETE /sprints/:id", [id |-> id],
                 RouteProblem("not-found", "Sprint Not Found", 404, <<"Sprint with ID ", id, " not found">>))
            /\ UNCHANGED reqs
       ELSE /\ reqs' = [reqs EXCEPT ![r] = [op |-> "DELETE /sprints/:id", pc |-> "delete", loc |-> [id |-> id]]]
            /\ UNCHANGED lastResponse
  /\ UNCHANGED <<db, nextId>>
  /\ UNCHANGED pure

\* DELETE /sprints/:id: db.sprint.delete, then the reply
SprintDeleteWrite(r) ==
  /\ At(r, "DELETE /sprints/:id", "delete")
  /\ LET id == reqs[r].loc.id
         res == SprintDeleteRow(db, id)
     IN  /\ db' = res.db
         /\ lastResponse' = Answered("DELETE /sprints/:id", [id |-> id],
              IF res.err = NoErr THEN Reply(204, <<>>)
              ELSE SprintInternalError(<<"An unexpected error occurred while deleting the sprint">>))
  /\ reqs' = [reqs EXCEPT ![r] = Idle]
  /\ UNCHANGED nextId
  /\ UNCHANGED pure

(***************************************************************************)
(* The service                                                             *)
(***************************************************************************)
vars == <<db, nextId, reqs, lastResponse, call, result, hits>>

Init ==
  /\ db = EmptyDb
  /\ nextId = 1
  /\ reqs = [r \in Slots |-> Idle]
  /\ lastResponse = NoResponse
  /\ call = NoCall
  /\ result = Pending
  /\ hits = NoHits

\* callers working with projects and documents
NextDocs ==
  \/ ProjectCreate(ProjectNames)
  \/ ProjectUpdate({Some(<<"R", "e", "n", "a", "m", "e", "d">>)})
  \/ ProjectDelete
  \/ \E r \in Slots : DocCreateFindProject(r, DocBodies)
  \/ \E r \in Slots : DocCreateInsert(r)
  \/ DocGet
  \/ DocUpdate(Titles, ExplicitSlugs)
  \/ DocDelete
  \/ Send

SpecDocs == Init /\ [][NextDocs]_vars

\* callers working with projects and features
NextFeatures ==
  \/ ProjectCreate(ProjectNames)
  \/ ProjectDelete
  \/ \E r \in Slots : FeatCreateFindProject(r, FeatureIds)
  \/ \E r \in Slots : FeatCreateFindFeature(r)
  \/ \E r \in Slots : FeatCreateInsert(r)
  \/ \E r \in Slots : FeatUpdateFind(r)
  \/ \E r \in Slots : FeatUpdateFindConflict(r)
  \/ \E r \in Slots : FeatUpdateWrite(r)
  \/ \E r \in Slots : FeatDeleteFind(r)
  \/ \E r \in Slots : FeatDeleteWrite(r)
  \/ Send

SpecFeatures == Init /\ [][NextFeatures]_vars

\* callers working with the dates of sprints
NextSprintDates ==
  \/ ProjectCreate(ProjectNames)
  \/ \E r \in Slots : SprintCreateFindProject(r, Codes)
  \/ \E r \in Slots : SprintCreateFindSprint(r)
  \/ \E r \in Slots : SprintCreateTx(r, Dates, {<<>>})
  \/ \E r \in Slots : SprintUpdateFind(r, {})
  \/ \E r \in Slots : SprintUpdateTx(r, Dates, Dates, {})
  \/ Send

SpecSprintDates == Init /\ [][NextSprintDates]_vars

\* a caller working with the items of the sprints of one project
NextSprintItems ==
  \/ db.project = {} /\ ProjectCreate(ProjectNames)
  \/ \E r \in {1} : SprintCreateFindProject(r, Codes)
  \/ \E r \in {1} : SprintCreateFindSprint(r)
  \/ \E r \in {1} : SprintCreateTx(r, {}, ItemLists)
  \/ \E r \in {1} : SprintUpdateFind(r, {})
  \/ \E r \in {1} : SprintUpdateTx(r, {1}, {}, ItemLists)
  \/ Send

SpecSprintItems == Init /\ [][NextSprintItems]_vars

\* the handlers in flight and the rows stored, projects aside, are all of one table
OnlyTable(table, ops) ==
  /\ \A t \in {"document", "feature", "sprint"} \ {table} : db[t] = {}
  /\ \A r \in Slots : reqs[r] = Idle \/ reqs[r].op \in ops

OnlyDocuments == OnlyTable("document", {"POST /documents"})
OnlyFeatures == OnlyTable("feature", {"POST /features", "PATCH /features/:id", "DELETE /features/:id"})
OnlySprints == OnlyTable("sprint", {"POST /sprints", "PATCH /sprints/:id", "DELETE /sprints/:id"})

\* callers creating, renaming and deleting the documents, the features or the
\* sprints of the same projects at the same time.  No handler of one route file
\* reads or writes the table of another, so the three are run apart.
NextKeys ==
  \/ ProjectCreate(ProjectNames)
  \/ OnlyDocuments /\ \E r \in Slots : DocCreateFindProject(r, DocBodies)
  \/ OnlyDocuments /\ \E r \in Slots : DocCreateInsert(r)
  \/ OnlyDocuments /\ DocUpdate(Titles, ExplicitSlugs)
  \/ OnlyDocuments /\ DocDelete
  \/ OnlyFeatures /\ \E r \in Slots : FeatCreateFindProject(r, FeatureIds)
  \/ OnlyFeatures /\ \E r \in Slots : FeatCreateFindFeature(r)
  \/ OnlyFeatures /\ \E r \in Slots : FeatCreateInsert(r)
  \/ OnlyFeatures /\ \E r \in Slots : FeatUpdateFind(r)
  \/ OnlyFeatures /\ \E r \in Slots : FeatUpdateFindConflict(r)
  \/ OnlyFeatures /\ \E r \in Slots : FeatUpdateWrite(r)
  \/ OnlyFeatures /\ \E r \in Slots : FeatDeleteFind(r)
  \/ OnlyFeatures /\ \E r \in Slots : FeatDeleteWrite(r)
  \/ OnlySprints /\ \E r \in Slots : SprintCreateFindProject(r, Codes)
  \/ OnlySprints /\ \E r \in Slots : SprintCreateFindSprint(r)
  \/ OnlySprints /\ \E r \in Slots : SprintCreateTx(r, {}, {<<>>})
  \/ OnlySprints /\ \E r \in Slots : SprintUpdateFind(r, Codes)
  \/ OnlySprints /\ \E r \in Slots : SprintUpdateFindConflict(r)
  \/ OnlySprints /\ \E r \in Slots : SprintUpdateTx(r, {}, {}, {})
  \/ OnlySprints /\ \E r \in Slots : SprintDeleteFind(r)
  \/ OnlySprints /\ \E r \in Slots : SprintDeleteWrite(r)
  \/ Send

SpecKeys == Init /\ [][NextKeys]_vars

\* the store after two projects were created and then the features (or the
\* sprints) placed: places[i] is the project and the natural key of the row
\* with id i; a create the unique index refuses leaves no row.  Ids are
\* compared within one table only.
RECURSIVE PlaceRows(_, _, _, _)
PlaceRows(d, table, places, i) ==
  IF i > Len(places) THEN d
  ELSE LET place == places[i]
           res == IF table = "feature"
                  THEN FeatureCreateRow(d, i, [projectId |-> place[1], featureId |-> place[2],
                                              status |-> "PLANNED"])
                  ELSE SprintCreateRow(d, i, [projectId |-> place[1], code |-> place[2], status |-> "PLANNED",
                                             startDate |-> NoNum, endDate |-> NoNum])
       IN  PlaceRows(res.db, table, places, i + 1)

TwoProjects ==
  LET name == CHOOSE n \in ProjectNames : TRUE
  IN  ProjectCreateRow(ProjectCreateRow(EmptyDb, 1, name).db, 2, name).db

InitKeyUpdate ==
  /\ db \in {PlaceRows(TwoProjects, "feature", places, 1) : places \in [1..MaxIds -> {1, 2} \X FeatureIds]}
           \cup {PlaceRows(TwoProjects, "sprint", places, 1) : places \in [1..MaxIds -> {1, 2} \X Codes]}
  /\ nextId = MaxIds + 1
  /\ reqs = [r \in Slots |-> Idle]
  /\ lastResponse = NoResponse
  /\ call = NoCall
  /\ result = Pending
  /\ hits = NoHits

\* one caller at a time changing the natural keys of features and of sprints
NextKeyUpdate ==
  \/ FeatUpdateFind(1)
  \/ FeatUpdateFindConflict(1)
  \/ FeatUpdateWrite(1)
  \/ SprintUpdateFind(1, Codes)
  \/ SprintUpdateFindConflict(1)
  \/ SprintUpdateTx(1, {}, {}, {})
  \/ Send

SpecKeyUpdate == InitKeyUpdate /\ [][NextKeyUpdate]_vars

\* a caller sending creates and sending them again.  The routes read the
\* x-idempotency-key header at most into a constant they never use, so the
\* header is no input of any handler.
NextRetry ==
  \/ ProjectCreate(ProjectNames)
  \/ DocCreateFindProject(1, DocBodies)
  \/ DocCreateInsert(1)
  \/ FeatCreateFindProject(1, FeatureIds)
  \/ FeatCreateFindFeature(1)
  \/ FeatCreateInsert(1)
  \/ SprintCreateFindProject(1, Codes)
  \/ SprintCreateFindSprint(1)
  \/ SprintCreateTx(1, {}, {<<>>})
  \/ Send

SpecRetry == Init /\ [][NextRetry]_vars

\* projects deleted while children are created under them, and sprints
\* deleted while their items are replaced
NextOwnership ==
  \/ ProjectCreate(ProjectNames)
  \/ ProjectDelete
  \/ DocCreateFindProject(1, {[title |-> T1, kind |-> "FREEFORM", slug |-> None]})
  \/ DocCreateInsert(1)
  \/ FeatCreateFindProject(1, {CHOOSE k \in FeatureIds : TRUE})
  \/ FeatCreateFindFeature(1)
  \/ FeatCreateInsert(1)
  \/ SprintCreateFindProject(1, {CHOOSE k \in Codes : TRUE})
  \/ SprintCreateFindSprint(1)
  \/ SprintCreateTx(1, {}, {<<>>, <<ItemA>>})
  \/ SprintDeleteFind(1)
  \/ SprintDeleteWrite(1)
  \/ SprintUpdateFind(2, Codes)
  \/ SprintUpdateFindConflict(2)
  \/ SprintUpdateTx(2, {}, {}, {<<ItemB>>})
  \/ Send

SpecOwnership == Init /\ [][NextOwnership]_vars

\* one caller at a time sending creates that fail none, one or several of
\* the checks.  The dates of a sprint body are drawn where the handler first
\* uses them, so an answer given before that is the answer for every date.
NextCreateOrder ==
  \/ ProjectCreate(ProjectNames)
  \/ OnlyDocuments /\ DocCreateFindProject(1, {[title |-> T1, kind |-> "FREEFORM", slug |-> None],
                                                [title |-> T1, kind |-> "MEMO", slug |-> None]})
  \/ OnlyDocuments /\ DocCreateInsert(1)
  \/ OnlyFeatures /\ FeatCreateFindProject(1, FeatureIds \cup {<<"F", "E", "A", "T", "1">>})
  \/ OnlyFeatures /\ FeatCreateFindFeature(1)
  \/ OnlyFeatures /\ FeatCreateInsert(1)
  \/ OnlySprints /\ SprintCreateFindProject(1, Codes \cup {<<"S", "P", "R", "1">>})
  \/ OnlySprints /\ SprintCreateFindSprint(1)
  \/ OnlySprints /\ SprintCreateTx(1, Dates, {<<>>})
  \/ Send

SpecCreateOrder == Init /\ [][NextCreateOrder]_vars

\* a caller filling projects, reading them, listing them and deleting them
NextCascade ==
  \/ ProjectCreate(ProjectNames)
  \/ ProjectGet
  \/ ProjectList({NoNum}, {NoNum})
  \/ ProjectDelete
  \/ \E r \in {1} : DocCreateFindProject(r, {[title |-> T1, kind |-> "FREEFORM", slug |-> None]})
  \/ \E r \in {1} : DocCreateInsert(r)
  \/ DocGet
  \/ \E r \in {1} : DocListFirst(r)
  \/ \E r \in {1} : DocListSecond(r)
  \/ \E r \in {1} : FeatCreateFindProject(r, FeatureIds)
  \/ \E r \in {1} : FeatCreateFindFeature(r)
  \/ \E r \in {1} : FeatCreateInsert(r)
  \/ FeatGet
  \/ \E r \in {1} : FeatListCount(r, {NoNum}, {NoNum})
  \/ \E r \in {1} : FeatListFindMany(r)
  \/ \E r \in {1} : SprintCreateFindProject(r, Codes)
  \/ \E r \in {1} : SprintCreateFindSprint(r)
  \/ \E r \in {1} : SprintCreateTx(r, {}, {<<ItemA, ItemB>>})
  \/ SprintGet
  \/ \E r \in {1} : SprintListCount(r, {NoNum}, {NoNum})
  \/ \E r \in {1} : SprintListFindMany(r)
  \/ Send

SpecCascade == Init /\ [][NextCascade]_vars

\* callers paging through the lists while rows are created and deleted
NextLists ==
  \/ ProjectCreate(ProjectNames)
  \/ ProjectDelete
  \/ ProjectList(Limits, Offsets)
  \/ \E r \in {1} : FeatCreateFindProject(r, FeatureIds)
  \/ \E r \in {1} : FeatCreateFindFeature(r)
  \/ \E r \in {1} : FeatCreateInsert(r)
  \/ \E r \in {1} : FeatDeleteFind(r)
  \/ \E r \in {1} : FeatDeleteWrite(r)
  \/ \E r \in Slots : FeatListCount(r, Limits, Offsets)
  \/ \E r \in Slots : FeatListFindMany(r)
  \/ Send

SpecLists == Init /\ [][NextLists]_vars

\* feature codes of create bodies, well-formed or not
FeatureIdInputs ==
  FeatureIds \cup {<<"F", "E", "A", "T", "-", "0", "0", "1">>, <<>>, <<"F", "E", "A", "T", "-">>,
                   <<"f", "e", "a", "t", "-", "1">>, <<"F", "E", "A", "T", "-", "1", "a">>,
                   <<"F", "E", "A", "T", "1">>}

\* sprint codes of create bodies, well-formed or not
CodeInputs == {<<"S", "P", "R", "-", "1">>, <<>>, <<"S", "P", "R", "1">>, <<"S", "P", "R", "-", "x">>}

\* project names of create and update bodies: valid, empty, too long
NameInputs == ProjectNames \cup {<<>>, [i \in 1..101 |-> "x"]}

\* document bodies of create requests: valid ones, an empty title, a title that
\* is too long, a slug outside [a-z0-9-], an unknown kind
DocBodyInputs ==
  {[title |-> T1, kind |-> "FREEFORM", slug |-> None],
   [title |-> <<>>, kind |-> "FREEFORM", slug |-> None],
   [title |-> [i \in 1..201 |-> "x"], kind |-> "FREEFORM", slug |-> None],
   [title |-> T1, kind |-> "FREEFORM", slug |-> Some(<<"B", "a", "d", " ", "S", "l", "u", "g">>)],
   [title |-> T1, kind |-> "MEMO", slug |-> None]}

\* callers sending bodies that the schemas accept or refuse
NextValidation ==
  \/ ProjectCreate(NameInputs)
  \/ \E r \in {1} : DocCreateFindProject(r, DocBodyInputs)
  \/ \E r \in {1} : DocCreateInsert(r)
  \/ ProjectUpdate({Some(name) : name \in NameInputs})
  \/ DocUpdate({T1, <<>>}, {b.slug[1] : b \in {b \in DocBodyInputs : b.slug # None}})
  \/ \E r \in {1} : FeatCreateFindProject(r, FeatureIdInputs)
  \/ \E r \in {1} : FeatCreateFindFeature(r)
  \/ \E r \in {1} : FeatCreateInsert(r)
  \/ \E r \in {1} : SprintCreateFindProject(r, CodeInputs)
  \/ \E r \in {1} : SprintCreateFindSprint(r)
  \/ \E r \in {1} : SprintCreateTx(r, Dates, {<<>>, <<ItemA>>})
  \/ Send

SpecValidation == Init /\ [][NextValidation]_vars

(***************************************************************************)
(* generateSlug on its own                                                 *)
(***************************************************************************)
T3 == <<"-", "T", "e", "s", "t", " ", "D", "o", "c", "u", "m", "e", "n", "t", "-">>
\* an upper-case and a lower-case letter, a digit, whitespace, a hyphen, punctuation
SlugAlphabet == {"a", "B", "1", " ", "-", "&"}
\* the titles of the create bodies: every short title and the titles of the tests
TitleInputs == UNION {[1..n -> SlugAlphabet] : n \in 1..MaxTitleLen} \cup {T1, T2, T3}

InitSlug ==
  /\ db = EmptyDb
  /\ nextId = 1
  /\ reqs = [r \in Slots |-> Idle]
  /\ lastResponse = NoResponse
  /\ call \in {[fn |-> "slug", title |-> t, slug |-> sl] :
                 t \in TitleInputs, sl \in {None} \cup {Some(x) : x \in ExplicitSlugs}}
  /\ result = Pending
  /\ hits = NoHits

\* POST /documents, lines 27-28: the slug that goes to the store
ComputeSlug ==
  /\ call.fn = "slug"
  /\ ~result.done
  /\ result' = Returned(SlugOrGenerated(call.slug, call.title))
  /\ UNCHANGED <<db, nextId, reqs, lastResponse, call, hits>>

NextSlug == ComputeSlug

SpecSlug == InitSlug /\ [][NextSlug]_vars

(***************************************************************************)
(* errorHandler on its own                                                 *)
(***************************************************************************)
\* the errors that reach the handler: those the routes throw, those of the
\* store, that of the rate-limit plugin and the ones of the handler's tests
ErrorInputs ==
  LET S2 == <<"r", "a", "t", "e", "l", "i", "m", "i", "t">>
      MsgInvalidInput == <<"I", "n", "v", "a", "l", "i", "d", " ", "i", "n", "p", "u", "t">>
      MsgTooMany == <<"T", "o", "o", " ", "m", "a", "n", "y", " ", "r", "e", "q", "u", "e", "s", "t", "s">>
      MsgBoom == <<"b", "o", "o", "m">>
      MsgRateLimit == <<"R", "a", "t", "e", " ", "l", "i", "m", "i", "t", " ", "e", "x", "c", "e", "e", "d", "e", "d">>
      FieldName == <<"field", "name">>
  IN
  {ZodError,
   ValidationError(MsgInvalidInput, <<FieldName>>), ValidationError(MsgInvalidInput, NoDetails),
   NotFoundError(MsgProjectNotFound), NotFoundError(MsgDocumentNotFound),
   ConflictError(DocConflictMessage(S1)), ConflictError(DocConflictMessage(S2)),
   PrismaError("P2002"), PrismaError("P2025"), PrismaError("P2003"),
   PlainError(429, NoNum, MsgTooMany), PlainError(NoNum, 429, MsgTooMany),
   PlainError(429, NoNum, MsgRateLimit),
   GenericError(MsgBoom), GenericError(MsgRateLimit)}

RequestInputs ==
  {[url |-> u, id |-> i] : u \in {"/api/v1/documents", "/api/v1/projects", "/any"},
                           i \in {"test-request-id", "req-1", "req-2"}}

InitErrorHandler ==
  /\ db = EmptyDb
  /\ nextId = 1
  /\ reqs = [r \in Slots |-> Idle]
  /\ lastResponse = NoResponse
  /\ call \in {[fn |-> "errorHandler", error |-> e, request |-> q] : e \in ErrorInputs, q \in RequestInputs}
  /\ result = Pending
  /\ hits = NoHits

\* fastify calls the error handler with the error a route threw
HandleError ==
  /\ call.fn = "errorHandler"
  /\ ~result.done
  /\ result' = Returned(errorHandler(call.error, call.request))
  /\ UNCHANGED <<db, nextId, reqs, lastResponse, call, hits>>

NextErrorHandler == HandleError

SpecErrorHandler == InitErrorHandler /\ [][NextErrorHandler]_vars

(***************************************************************************)
(* middleware/request-id.ts: the onRequest hook and the replies after it    *)
(***************************************************************************)
\* a hook that does not read x-correlation-id
requestIdNoCorrelation(headers, uuid) ==
  IF headers.xRequestId # NoStr THEN headers.xRequestId ELSE uuid

\* requestId = headers['x-request-id'] || headers['x-correlation-id'] || randomUUID(),
\* uuid being what randomUUID() returns; an absent or empty header is NoStr
requestIdMiddleware(headers, uuid) ==
  IF headers.xRequestId # NoStr THEN headers.xRequestId
  ELSE IF headers.xCorrelationId # NoStr THEN headers.xCorrelationId
  ELSE uuid

\* the requests that arrive: their path and their two id headers
InitRequestId ==
  /\ db = EmptyDb
  /\ nextId = 1
  /\ reqs = [r \in Slots |-> Idle]
  /\ lastResponse = NoResponse
  /\ call \in {[fn |-> "onRequest", url |-> u, id |-> NoStr,
                 headers |-> [xRequestId |-> x, xCorrelationId |-> c]] :
                  u \in {"/api/v1/projects", "/api/v1/documents", "/api/v1/features", "/api/v1/sprints"},
                  x \in {NoStr, "req-1", "req-2"}, c \in {NoStr, "corr-1"}}
  /\ result = Pending
  /\ hits = NoHits

\* the onRequest hook: request.id and the x-request-id header of the reply
OnRequest ==
  /\ call.fn = "onRequest"
  /\ \E uuid \in {"uuid-1", "uuid-2"} :
       LET requestId == requestIdMiddleware(call.headers, uuid)
       IN  /\ call' = [call EXCEPT !.fn = "handler", !.id = requestId]
           /\ result' = [done |-> FALSE, value |-> [headers |-> [xRequestId |-> requestId]]]
  /\ UNCHANGED <<db, nextId, reqs, lastResponse, hits>>

\* a route returns a body; the reply goes out with the headers set so far
RespondSuccess ==
  /\ call.fn = "handler"
  /\ ~result.done
  /\ result' = Returned([headers |-> result.value.headers, reply |-> Reply(200, <<>>)])
  /\ UNCHANGED <<db, nextId, reqs, lastResponse, call, hits>>

\* a route throws and errorHandler answers
RespondErrorHandler ==
  /\ call.fn = "handler"
  /\ ~result.done
  /\ \E error \in {NotFoundError(MsgProjectNotFound), ZodError, PrismaError("P2002"),
                    GenericError(<<"b", "o", "o", "m">>)} :
       result' = Returned([headers |-> result.value.headers,
                           reply |-> errorHandler(error, [url |-> call.url, id |-> call.id])])
  /\ UNCHANGED <<db, nextId, reqs, lastResponse, call, hits>>

\* a feature or sprint route answers an error itself, requestId being
\* request.headers['x-request-id']
RespondRouteProblem ==
  /\ call.fn = "handler"
  /\ call.url \in {"/api/v1/features", "/api/v1/sprints"}
  /\ ~result.done
  /\ \E problem \in {RouteValidationFailed, SprintDatesProblem,
                      FeatureInternalError(<<"An unexpected error occurred while creating the feature">>)} :
       result' = Returned([headers |-> result.value.headers,
                           reply |-> [problem EXCEPT !.payload.requestId = call.headers.xRequestId]])
  /\ UNCHANGED <<db, nextId, reqs, lastResponse, call, hits>>

\* a project or document route answers a body that safeParse refused
RespondSafeParseFailed ==
  /\ call.fn = "handler"
  /\ call.url \in {"/api/v1/projects", "/api/v1/documents"}
  /\ ~result.done
  /\ result' = Returned([headers |-> result.value.headers, reply |-> SafeParseFailed])
  /\ UNCHANGED <<db, nextId, reqs, lastResponse, call, hits>>

NextRequestId ==
  \/ OnRequest
  \/ RespondSuccess
  \/ RespondErrorHandler
  \/ RespondRouteProblem
  \/ RespondSafeParseFailed

SpecRequestId == InitRequestId /\ [][NextRequestId]_vars

(***************************************************************************)
(* The rate limiter registered in server.ts                                *)
(***************************************************************************)
RateLimitMax == 2       \* config.RATE_LIMIT_MAX: requests allowed per window and caller

\* a limiter that lets every request through
RateLimitNever(current, max) == FALSE

\* the limiter refuses the request that takes the caller's count over max
RateLimitExceeded(current, max) == current > max

\* errorResponseBuilder(request, context) and what becomes of it: thrown into
\* errorHandler by plugin versions that throw, sent as the body by those that
\* send it themselves; the Retry-After header is set in both
RateLimitReply(path, url) ==
  LET message == <<"R", "a", "t", "e", " ", "l", "i", "m", "i", "t", " ", "e", "x", "c", "e", "e", "d", "e", "d",
                   ",", " ", "r", "e", "t", "r", "y", " ", "i", "n", " ", "1", " ", "m", "i", "n", "u", "t", "e">>
      built == [ProblemDetails("rate-limit-exceeded", "Rate Limit Exceeded", NoNum,
                               <<"Too many requests. Try again in 60 seconds.">>, url)
                  EXCEPT !.statusCode = 429, !.error = "Too Many Requests", !.requestId = HeaderRequestId]
      reply == IF path = "throw" THEN errorHandler(PlainError(429, NoNum, message), Request(url))
               ELSE Reply(429, built)
  IN  reply @@ [headers |-> [retryAfter |-> "60"]]

\* the onRequest hook of @fastify/rate-limit for a request of the caller: it
\* counts the request and answers 429 or lets it on to its route
RateLimitHook(c) ==
  /\ Quiet
  /\ call = NoCall
  /\ hits[c] <= RateLimitMax + 1
  /\ LET current == hits[c] + 1
     IN  /\ hits' = [hits EXCEPT ![c] = current]
         /\ IF RateLimitExceeded(current, RateLimitMax)
            THEN /\ \E path \in {"throw", "send"} :
                      lastResponse' = Answered("GET /health/test", [caller |-> c, n |-> current],
                                               RateLimitReply(path, "/health/test"))
                 /\ UNCHANGED call
            ELSE /\ call' = [fn |-> "route", caller |-> c, n |-> current]
                 /\ UNCHANGED lastResponse
  /\ UNCHANGED <<db, nextId, reqs, result>>

\* GET /health/test, reached by a request the limiter let through
HealthTest ==
  /\ call.fn = "route"
  /\ lastResponse' = Answered("GET /health/test", [caller |-> call.caller, n |-> call.n],
                              Reply(200, [status |-> "ok"]))
  /\ call' = NoCall
  /\ UNCHANGED <<db, nextId, reqs, result, hits>>

\* the time window of a caller ends: its count starts again
WindowExpires(c) ==
  /\ hits[c] > 0
  /\ hits' = [hits EXCEPT ![c] = 0]
  /\ UNCHANGED <<db, nextId, reqs, lastResponse, call, result>>

NextRateLimit ==
  \/ \E c \in Callers : RateLimitHook(c)
  \/ HealthTest
  \/ \E c \in Callers : WindowExpires(c)
  \/ Send

SpecRateLimit == Init /\ [][NextRateLimit]_vars

(***************************************************************************)
(* The health endpoints                                                    *)
(***************************************************************************)
LiveTimeout == 2        \* seconds /health/live waits for the store: setTimeout(..., 2000)
ReadyTimeout == 5       \* seconds /health/ready waits: config.HEALTH_CHECK_TIMEOUT, 5000 by default

\* what the store does with SELECT 1: whether it answers at all, after how
\* many seconds, and whether the answer is a result or an error
StoreConditions ==
  [answers : BOOLEAN, after : 0..(ReadyTimeout + 1), fails : BOOLEAN]

\* checkDatabaseHealth(): true for a result, false for an error it catches
checkDatabaseHealth(store) == ~store.fails

\* the body of /health/live and /health/ready
HealthBody(dbHealthy) ==
  [status |-> IF dbHealthy THEN "healthy" ELSE "unhealthy",
   checks |-> [database |-> [status |-> IF dbHealthy THEN "healthy" ELSE "unhealthy"]]]

\* GET /health/live and GET /health/ready up to the await of Promise.race
HealthCheckStart ==
  /\ Quiet
  /\ call = NoCall
  /\ \E url \in {"/health/live", "/health/ready"}, store \in StoreConditions :
       call' = [fn |-> "race", url |-> url, store |-> store, elapsed |-> 0,
                timeout |-> IF url = "/health/live" THEN LiveTimeout ELSE ReadyTimeout]
  /\ UNCHANGED <<db, nextId, reqs, lastResponse, result, hits>>

\* a second passes while neither promise of the race has settled
HealthTick ==
  /\ call.fn = "race"
  /\ call.elapsed < call.timeout
  /\ ~(call.store.answers /\ call.store.after = call.elapsed)
  /\ call' = [call EXCEPT !.elapsed = @ + 1]
  /\ UNCHANGED <<db, nextId, reqs, lastResponse, result, hits>>

\* checkDatabaseHealth() settles first: 503 when it is false
HealthCheckSettles ==
  /\ call.fn = "race"
  /\ call.store.answers
  /\ call.store.after = call.elapsed
  /\ LET dbHealthy == checkDatabaseHealth(call.store)
     IN  lastResponse' = Answered("GET " \o call.url, [store |-> call.store, elapsed |-> call.elapsed],
                                  Reply(IF dbHealthy THEN 200 ELSE 503, HealthBody(dbHealthy)))
  /\ call' = NoCall
  /\ UNCHANGED <<db, nextId, reqs, result, hits>>

\* the timer of the race fires first: the catch block answers 503
HealthCheckTimeout ==
  /\ call.fn = "race"
  /\ call.elapsed = call.timeout
  /\ lastResponse' = Answered("GET " \o call.url, [store |-> call.store, elapsed |-> call.elapsed],
                              Reply(503, HealthBody(FALSE)))
  /\ call' = NoCall
  /\ UNCHANGED <<db, nextId, reqs, result, hits>>

\* GET /health/startup: answers without asking the store
HealthStartup ==
  /\ Quiet
  /\ call = NoCall
  /\ \E store \in StoreConditions :
       lastResponse' = Answered("GET /health/startup", [store |-> store, elapsed |-> 0],
                                Reply(200, [status |-> "ready"]))
  /\ UNCHANGED <<db, nextId, reqs, call, result, hits>>

NextHealth ==
  \/ HealthCheckStart
  \/ HealthTick
  \/ HealthCheckSettles
  \/ HealthCheckTimeout
  \/ HealthStartup
  \/ Send

SpecHealth == Init /\ [][NextHealth]_vars

(***************************************************************************)
(* The MCP gateway: the tool handlers and ApiClient.request                *)
(***************************************************************************)
\* the methods ApiClient has
ClientMethods ==
  {"getProjects", "getProject", "createProject", "updateProject", "deleteProject",
   "getDocuments", "getDocument", "createDocument", "updateDocument", "deleteDocument",
   "healthCheck"}

\* the tool handlers: the client method each calls, whether it hands the
\* caller's idempotencyKey on, the text it answers a 404 with (NoStr: none)
\* and the text it puts before title and detail (NoStr: 'API Error: ' form)
Tools ==
  { [name |-> "create_project", method |-> "createProject", passesKey |-> TRUE,
     notFound |-> NoStr, failed |-> NoStr],
    [name |-> "get_project", method |-> "getProject", passesKey |-> FALSE,
     notFound |-> "Project not found: ", failed |-> NoStr],
    [name |-> "delete_project", method |-> "deleteProject", passesKey |-> FALSE,
     notFound |-> "Project not found: ", failed |-> NoStr],
    [name |-> "create_document", method |-> "createDocument", passesKey |-> TRUE,
     notFound |-> NoStr, failed |-> NoStr],
    [name |-> "get_document", method |-> "getDocument", passesKey |-> FALSE,
     notFound |-> "Document not found: ", failed |-> NoStr],
    [name |-> "update_document", method |-> "updateDocument", passesKey |-> FALSE,
     notFound |-> "Document not found: ", failed |-> NoStr],
    [name |-> "create_feature", method |-> "createFeature", passesKey |-> FALSE,
     notFound |-> NoStr, failed |-> "Create feature failed: "],
    [name |-> "create_sprint", method |-> "createSprint", passesKey |-> FALSE,
     notFound |-> NoStr, failed |-> "Create sprint failed: "] }

CreateTools == {"create_project", "create_document", "create_feature", "create_sprint"}

\* `${text}` of a string and of a number that may be undefined
TemplateText(text) == IF text = NoStr THEN "undefined" ELSE text
TemplateNumber(n) == IF n = NoNum THEN "undefined" ELSE ToString(n)

\* the message of the Error a handler throws for a response with an error,
\* as the parts of its template string
ToolError(tool, id, response) ==
  LET error == response.error[1]
  IN  IF tool.notFound # NoStr /\ response.status = 404
      THEN <<tool.notFound, id>>
      ELSE IF tool.failed # NoStr
      THEN <<tool.failed, TemplateText(error.title), " - ", TemplateText(error.detail)>>
      ELSE <<"API Error: ", TemplateText(error.detail), " (", TemplateNumber(error.status), ")">>

\* response.ok
ResponseOk(status) == status >= 200 /\ status <= 299

\* AbortSignal.timeout(delay) accepts an unsigned 32 bit integer and throws a
\* RangeError for any other delay (the delays used here are below 2^31)
ValidDelay(delay) == delay >= 0

\* the delays API_TIMEOUT can be configured to: z.coerce.number() has no minimum
ApiTimeouts == {30000, 0 - 1}

\* the statuses the service answers with
ServiceStatuses == {200, 201, 400, 404, 409, 422, 429, 500}

\* the bodies the service answers a status with: for an error a problem
\* document, a body without title, status and detail (as the 400 of the
\* project and document routes) or no body
ServiceBodies(status) ==
  IF ResponseOk(status) THEN {Some([title |-> NoStr, status |-> NoNum, detail |-> NoStr])}
  ELSE {Some([title |-> "Problem", status |-> status, detail |-> "the detail of the service"]),
        Some([title |-> NoStr, status |-> NoNum, detail |-> NoStr]),
        None}

\* the names toolHandlers has a handler for
ToolHandlers == {t.name : t \in Tools}

\* a tool name without a handler
UnknownTool ==
  [name |-> "drop_project", method |-> NoStr, passesKey |-> FALSE, notFound |-> NoStr, failed |-> NoStr]

\* z.string().cuid(): /^c[^\s-]{8,}$/i
IsCuid(s) ==
  /\ Len(s) >= 9
  /\ s[1] \in {"c", "C"}
  /\ \A i \in 2..Len(s) : s[i] \notin Whitespace \cup {"-"}

\* a gateway that hands every argument set on
GatewayAcceptsAll(name, args) == TRUE

\* the schema a tool handler parses its arguments with, for the create tools;
\* args.title is the name of a project or sprint, args.key the featureId or
\* code; the fields not modelled are sent well-formed, as are the ids of the
\* other tools
GatewayAccepts(name, args) ==
  CASE name = "create_project" -> ValidLength(args.title, 1, 100)
    [] name = "create_document" -> IsCuid(args.projectId) /\ ValidLength(args.title, 1, 200)
    [] name = "create_feature" ->
         MatchesKeyFormat(<<"F", "E", "A", "T", "-">>, args.key) /\ ValidLength(args.title, 1, 200)
    [] name = "create_sprint" ->
         MatchesKeyFormat(<<"S", "P", "R", "-">>, args.key) /\ ValidLength(args.title, 1, 200)
    [] OTHER -> TRUE

\* the schema the route of the service parses the same body with
ServiceAccepts(name, args) ==
  CASE name = "create_project" -> ValidLength(args.title, 1, 100)
    [] name = "create_document" ->
         /\ IsCuid(args.projectId)
         /\ createDocumentSchema([title |-> args.title, kind |-> "FREEFORM", slug |-> None])
    [] name = "create_feature" ->
         /\ ValidLength(args.projectId, 1, Len(args.projectId))
         /\ MatchesKeyFormat(<<"F", "E", "A", "T", "-">>, args.key)
         /\ ValidLength(args.title, 1, 200)
    [] name = "create_sprint" ->
         /\ ValidLength(args.projectId, 1, Len(args.projectId))
         /\ MatchesKeyFormat(<<"S", "P", "R", "-">>, args.key)
         /\ ValidLength(args.title, 1, 200)
    [] OTHER -> TRUE

\* the project ids, natural keys and titles of tool arguments
ProjectIdArgs == {<<>>, <<"c", "l", "x", "0", "0", "0", "0", "0", "1">>, <<"p", "r", "o", "j", "-", "1">>}
KeyArgs == {<<"F", "E", "A", "T", "-", "1">>, <<"S", "P", "R", "-", "1">>, <<"F", "E", "A", "T", "1">>}
TitleArgs == {T1, <<>>}

InitGateway ==
  /\ db = EmptyDb
  /\ nextId = 1
  /\ reqs = [r \in Slots |-> Idle]
  /\ lastResponse = NoResponse
  /\ call \in {[fn |-> "tool", tool |-> t, timeout |-> d, parsed |-> FALSE,
                 args |-> [id |-> "id-1", requestId |-> x, idempotencyKey |-> k,
                           projectId |-> p, key |-> f, title |-> n],
                 options |-> [requestId |-> NoStr, idempotencyKey |-> NoStr],
                 headers |-> [xRequestId |-> NoStr, xIdempotencyKey |-> NoStr],
                 request |-> "none", sent |-> 0, failure |-> NoStr,
                 service |-> [status |-> NoNum, body |-> None],
                 response |-> [status |-> NoNum, data |-> None, error |-> None]] :
                  t \in Tools \cup {UnknownTool}, d \in ApiTimeouts, x \in {NoStr, "uuid-c"},
                  k \in {NoStr, "key-c"}, p \in ProjectIdArgs, f \in KeyArgs, n \in TitleArgs}
  /\ result = Pending
  /\ hits = NoHits

\* the CallToolRequestSchema handler and a tool handler up to its call of the
\* client: a name without a handler is an McpError; the handler first parses
\* its arguments and throws the ZodError; a method the client does not have is
\* a TypeError.  All of them fail the tool call.
CallTool ==
  /\ call.fn = "tool"
  /\ IF call.tool.name \notin ToolHandlers
     THEN /\ result' = Returned([thrown |-> TRUE, message |-> <<"Unknown tool: ", call.tool.name>>])
          /\ call' = [call EXCEPT !.fn = "done"]
     ELSE IF ~GatewayAccepts(call.tool.name, call.args)
     THEN /\ result' = Returned([thrown |-> TRUE, message |-> <<"Tool execution failed: ", "ZodError">>])
          /\ call' = [call EXCEPT !.fn = "done"]
     ELSE IF call.tool.method \notin ClientMethods
     THEN /\ result' = Returned([thrown |-> TRUE,
                                 message |-> <<"apiClient.", call.tool.method, " is not a function">>])
          /\ call' = [call EXCEPT !.fn = "done", !.parsed = TRUE]
     ELSE /\ call' = [call EXCEPT !.fn = "request", !.parsed = TRUE,
                                  !.options = [requestId |-> call.args.requestId,
                                               idempotencyKey |-> IF call.tool.passesKey
                                                                  THEN call.args.idempotencyKey
                                                                  ELSE NoStr]]
          /\ UNCHANGED result
  /\ UNCHANGED <<db, nextId, reqs, lastResponse, hits>>

\* ApiClient.request up to its fetch: the headers, then the abort signal,
\* which is made outside the try
ApiClientRequest ==
  /\ call.fn = "request"
  /\ \E uuid \in {"uuid-1", "uuid-2"} :
       LET requestId == IF call.options.requestId # NoStr THEN call.options.requestId ELSE uuid
           headers == [xRequestId |-> requestId, xIdempotencyKey |-> call.options.idempotencyKey]
       IN  IF ~ValidDelay(call.timeout)
           THEN /\ result' = Returned([thrown |-> TRUE, message |-> <<"RangeError">>])
                /\ call' = [call EXCEPT !.fn = "done", !.request = "threw"]
           ELSE /\ call' = [call EXCEPT !.fn = "fetch", !.request = "pending",
                                        !.headers = headers, !.sent = @ + 1]
                /\ UNCHANGED result
  /\ UNCHANGED <<db, nextId, reqs, lastResponse, hits>>

\* the service answers: the try block of ApiClient.request
FetchResponds ==
  /\ call.fn = "fetch"
  /\ \E status \in ServiceStatuses : \E body \in ServiceBodies(status) :
       LET fallback == [title |-> "API Error", status |-> status, detail |-> "HTTP status"]
           response == IF ResponseOk(status)
                       THEN [status |-> status, data |-> body, error |-> None]
                       ELSE [status |-> status, data |-> None,
                             error |-> IF body # None THEN body ELSE Some(fallback)]
       IN  call' = [call EXCEPT !.fn = "handler", !.request = "returned", !.response = response,
                                !.service = [status |-> status, body |-> body]]
  /\ UNCHANGED <<db, nextId, reqs, lastResponse, result, hits>>

\* the fetch is aborted by the timeout or the transport fails: the catch
\* block of ApiClient.request
FetchFails ==
  /\ call.fn = "fetch"
  /\ \E failure \in {"The operation was aborted due to timeout", "fetch failed"} :
       call' = [call EXCEPT !.fn = "handler", !.request = "returned", !.failure = failure,
                            !.response = [status |-> 500, data |-> None,
                                          error |-> Some([title |-> "Network Error", status |-> 500,
                                                          detail |-> failure])]]
  /\ UNCHANGED <<db, nextId, reqs, lastResponse, result, hits>>

\* the rest of a tool handler: it throws for a response with an error
ToolReturns ==
  /\ call.fn = "handler"
  /\ result' = IF call.response.error # None
               THEN Returned([thrown |-> TRUE,
                              message |-> ToolError(call.tool, call.args.id, call.response)])
               ELSE Returned([thrown |-> FALSE, message |-> <<>>])
  /\ call' = [call EXCEPT !.fn = "done"]
  /\ UNCHANGED <<db, nextId, reqs, lastResponse, hits>>

NextGateway ==
  \/ CallTool
  \/ ApiClientRequest
  \/ FetchResponds
  \/ FetchFails
  \/ ToolReturns

SpecGateway == InitGateway /\ [][NextGateway]_vars

(***************************************************************************)
(* Properties                                                              *)
(***************************************************************************)
\* the words of a title: its maximal runs of letters and digits, lower-cased,
\* read left to right and joined by single hyphens; a character of `seps`
\* between two words separates them, any other character is dropped
RECURSIVE SlugFromWords(_, _, _, _, _)
SlugFromWords(title, i, acc, gap, seps) ==
  IF i > Len(title) THEN acc
  ELSE LET c == toLowerCaseChar(title[i])
       IN  IF c \in LowerAlnum
           THEN SlugFromWords(title, i + 1,
                              (IF gap /\ acc # <<>> THEN Append(acc, "-") ELSE acc) \o <<c>>,
                              FALSE, seps)
           ELSE SlugFromWords(title, i + 1, acc, gap \/ c \in seps, seps)

\* the characters of a title
CharsOf(title) == {title[k] : k \in 1..Len(title)}

\* the answered request, its inputs and its reply
Op == lastResponse.op
Args == lastResponse.args
Status == lastResponse.reply.status
Payload == lastResponse.reply.payload

\* C1: a POST /documents whose slug, sent or generated from the title, is the
\* slug of a document of the same project is answered 409 and stores nothing;
\* with the slug free in the project (whatever other projects hold) it is
\* answered 201 and the document is stored
C1_DuplicateSlugConflict ==
  [][(lastResponse'.op = "POST /documents" /\ "title" \in DOMAIN lastResponse'.args) =>
       LET a == lastResponse'.args
           slug == IF a.slug # None THEN a.slug[1]
                   ELSE SlugFromWords(a.title, 1, <<>>, FALSE, Whitespace \cup {"-"})
           taken == \E x \in db.document : x.projectId = a.projectId /\ x.slug = slug
           exists == \E x \in db.project : x.id = a.projectId
       IN  /\ taken => lastResponse'.reply.status = 409 /\ db' = db
           /\ (exists /\ ~taken) =>
                /\ lastResponse'.reply.status = 201
                /\ \E x \in db'.document \ db.document : x.projectId = a.projectId /\ x.slug = slug]_vars

\* C2: no two documents of a project share a slug, no two features of a
\* project a featureId, no two sprints of a project a code
C2_UniqueKeys ==
  /\ \A x, y \in db.document : (x.projectId = y.projectId /\ x.slug = y.slug) => x.id = y.id
  /\ \A x, y \in db.feature : (x.projectId = y.projectId /\ x.featureId = y.featureId) => x.id = y.id
  /\ \A x, y \in db.sprint : (x.projectId = y.projectId /\ x.code = y.code) => x.id = y.id

\* a PATCH that would give a document the slug of another document of its
\* project has been refused, and both documents are stored
C2_Witness ==
  /\ Op = "PATCH /documents/:id"
  /\ Status = 409
  /\ Args.slug = Some(S1)
  /\ \E x, y \in db.document : x.id = Args.id /\ y.id # x.id /\ x.projectId = y.projectId /\ y.slug = S1

\* C3: a POST /features that finds its featureId stored in its project when it
\* is answered, by another request, is answered 409: of two racing creates one
\* is answered 201 and the other 409, never 500
C3_RaceGivesConflict ==
  (/\ Op = "POST /features"
   /\ Status # 201
   /\ \E x \in db.feature : x.projectId = Args.projectId /\ x.featureId = Args.key)
  => Status = 409

\* C4: every stored sprint with both dates has its endDate after its startDate
C4_DatesOrdered ==
  \A s \in db.sprint : (s.startDate # NoNum /\ s.endDate # NoNum) => s.endDate > s.startDate

\* C5: a PATCH /sprints/:id with an items array, once answered, has either
\* succeeded and left the sprint with exactly the items of the array, the items
\* of the other sprints being as before, or left the whole store as it was
C5_ItemsReplacedAtomically ==
  (Op = "PATCH /sprints/:id" /\ "items" \in DOMAIN Args /\ Args.items # None) =>
    LET items == Args.items[1]
        mine(d) == SelectSeq(d.sprintItem, LAMBDA it : it.sprintId = Args.id)
        others(d) == SelectSeq(d.sprintItem, LAMBDA it : it.sprintId # Args.id)
    IN  IF Status = 200
        THEN /\ Len(mine(db)) = Len(items)
             /\ \A i \in 1..Len(items) : /\ mine(db)[i].text = items[i].text
                                         /\ mine(db)[i].checked = items[i].checked
             /\ others(db) = others(Args.before)
             /\ Args.failAt = 0
        ELSE db = Args.before

\* the insert of the second of two new items was refused: the sprint has the
\* items and the dates it had before
C5_Witness ==
  /\ Op = "PATCH /sprints/:id"
  /\ "items" \in DOMAIN Args
  /\ Args.items # None
  /\ Len(Args.items[1]) = 2
  /\ Args.failAt = 2
  /\ Args.startDate # NoNum
  /\ Status = 500
  /\ \E it \in {db.sprintItem[i] : i \in 1..Len(db.sprintItem)} : it.sprintId = Args.id
  /\ db = Args.before

\* C6: a POST /sprints with n items, once answered, has stored the sprint and
\* its n items, or neither the sprint nor any item of it; a refused insert of
\* an item is the second case
C6_CreateAllOrNothing ==
  (Op = "POST /sprints" /\ "items" \in DOMAIN Args) =>
    LET mine == SelectSeq(db.sprintItem, LAMBDA it : it.sprintId = Args.id)
        stored == \E s \in db.sprint : s.id = Args.id
    IN  /\ \/ /\ stored
              /\ Len(mine) = Len(Args.items)
              /\ \A i \in 1..Len(mine) : mine[i].text = Args.items[i].text
           \/ /\ ~stored
              /\ mine = <<>>
        /\ Args.failAt # 0 => ~stored
        /\ Status = 201 <=> stored

\* the insert of the second of two items was refused: nothing of the sprint is stored
C6_Witness ==
  /\ Op = "POST /sprints"
  /\ "items" \in DOMAIN Args
  /\ Len(Args.items) = 2
  /\ Args.failAt = 2
  /\ Status = 500
  /\ \A s \in db.sprint : s.id # Args.id

\* C7: a list is answered with the number of stored rows matching the filter
\* as total and with min(limit, total - offset) rows, none when the offset is
\* past the total, limit being 20 and offset 0 when not sent
C7_ListPage ==
  (Op \in {"GET /projects", "GET /documents", "GET /features", "GET /sprints"}) =>
    LET limit == IF Args.limit = NoNum THEN 20 ELSE Args.limit
        offset == IF Args.offset = NoNum THEN 0 ELSE Args.offset
        inProject(rows) == {x \in rows : Args.projectId # NoNum => x.projectId = Args.projectId}
        matching == CASE Op = "GET /projects" -> Cardinality(db.project)
                      [] Op = "GET /documents" -> Cardinality(inProject(db.document))
                      [] Op = "GET /features" -> Cardinality(inProject(db.feature))
                      [] Op = "GET /sprints" -> Cardinality(inProject(db.sprint))
        rest == IF matching > offset THEN matching - offset ELSE 0
    IN  /\ Payload.total = matching
        /\ Len(Payload.page) = IF limit < rest THEN limit ELSE rest

MappingRow(error) ==
  CASE error.cls \in {"ZodError", "ValidationError"} -> <<400, "Validation Error">>
    [] error.cls = "NotFoundError" \/ (error.cls = "PrismaClientKnownRequestError" /\ error.code = "P2025")
         -> <<404, "Not Found">>
    [] error.cls = "ConflictError" \/ (error.cls = "PrismaClientKnownRequestError" /\ error.code = "P2002")
         -> <<409, "Conflict">>
    [] error.cls = "Object" /\ (error.statusCode = 429 \/ error.status = 429) -> <<429, "Rate Limit Exceeded">>
    [] OTHER -> <<500, "Internal Server Error">>

\* C10: errorHandler answers every error with the status and title of its row
\* of the mapping table, the details of a ValidationError, the same number as
\* HTTP status, body.status and body.statusCode, and the path and id of the request
C10_MappingTable ==
  (call.fn = "errorHandler" /\ result.done) =>
    LET reply == result.value
    IN  /\ reply.status = MappingRow(call.error)[1]
        /\ reply.payload.title = MappingRow(call.error)[2]
        /\ call.error.cls = "ValidationError" => reply.payload.details = call.error.details
        /\ reply.payload.status = reply.status
        /\ reply.payload.statusCode = reply.status
        /\ reply.payload.instance = call.request.url
        /\ reply.payload.requestId = call.request.id

\* C11: a POST /features whose featureId is not FEAT- followed by digits is
\* answered 400 'Validation Error' and stores no feature of that code;
\* FEAT-001 is not refused as invalid
C11_FeatureIdSchema ==
  Op = "POST /features" =>
    LET key == Args.key
        digits == SubSeq(key, 6, Len(key))
        wellFormed == /\ Len(key) >= 6
                      /\ SubSeq(key, 1, 5) = <<"F", "E", "A", "T", "-">>
                      /\ \A i \in 1..Len(digits) : digits[i] \in Digits
    IN  /\ ~wellFormed =>
              /\ Status = 400
              /\ Payload.title = "Validation Error"
              /\ \A x \in db.feature : x.featureId # key
        /\ key = <<"F", "E", "A", "T", "-", "0", "0", "1">> => Status \in {201, 404, 409}

\* C12: a POST /sprints for an existing project and an unused code whose
\* endDate is not after its startDate is answered 422 'Validation Failed' and
\* stores neither the sprint nor an item of it; a body the schema refuses is
\* answered with another status or title
C12_DateRangeIsDomainFailure ==
  Op = "POST /sprints" =>
    LET key == Args.key
        wellFormed == /\ Len(key) >= 5
                      /\ SubSeq(key, 1, 4) = <<"S", "P", "R", "-">>
                      /\ \A i \in 5..Len(key) : key[i] \in Digits
    IN  /\ ("startDate" \in DOMAIN Args /\ Args.startDate # NoNum /\ Args.endDate # NoNum
              /\ Args.endDate <= Args.startDate) =>
              /\ Status = 422
              /\ Payload.title = "Validation Failed"
              /\ \A x \in db.sprint : x.id # Args.id
              /\ \A i \in 1..Len(db.sprintItem) : db.sprintItem[i].sprintId # Args.id
        /\ ~wellFormed => <<Status, Payload.title>> # <<422, "Validation Failed">>

\* the fields a reply body carries
BodyFields(payload) ==
  {f \in DOMAIN payload :
     CASE f \in {"status", "statusCode"} -> payload[f] # NoNum
       [] f \in {"detail", "details", "issues"} -> payload[f] # <<>>
       [] OTHER -> payload[f] # NoStr}

\* C13: a create under a project that does not exist is answered by the
\* feature and sprint routes with the status, title and body fields (type,
\* title, status, detail, instance, requestId) of the answer of the document
\* route; a malformed create body is answered by the project and document
\* routes with the status and body fields of the feature and sprint routes
C13_SameResponseForAllEntities ==
  LET notFound == errorHandler(NotFoundError(MsgProjectNotFound), Request("/documents"))
  IN  /\ (Op \in {"POST /documents", "POST /features", "POST /sprints"} /\ Status = 404) =>
            /\ Payload.title = notFound.payload.title
            /\ BodyFields(Payload) = BodyFields(notFound.payload)
            /\ BodyFields(Payload) = {"type", "title", "status", "detail", "instance", "requestId"}
      /\ (\/ Op = "POST /projects" /\ Status # 201
          \/ Op = "POST /documents" /\ "body" \in DOMAIN Args) =>
            /\ Status = RouteValidationFailed.status
            /\ BodyFields(Payload) = BodyFields(RouteValidationFailed.payload)

\* C20: a PATCH of a project or a document whose body holds an invalid field
\* (a name or title that is empty or too long, a slug outside [a-z0-9-]) is
\* answered with a validation failure and leaves the store as it was
C20_UpdateValidatesFields ==
  LET badLength(field, max) == field # None /\ (Len(field[1]) = 0 \/ Len(field[1]) > max)
      badSlug(slug) == slug # None /\ \E i \in 1..Len(slug[1]) : slug[1][i] \notin LowerAlnum \cup {"-"}
      refused == Status \in {400, 422} /\ db = Args.before
  IN  /\ (Op = "PATCH /projects/:id" /\ badLength(Args.name, 100)) => refused
      /\ (Op = "PATCH /documents/:id"
            /\ (badLength(Args.title, 200) \/ badLength(Args.slug, 100) \/ badSlug(Args.slug))) => refused

\* C14: every reply after the onRequest hook carries an x-request-id header:
\* the X-Request-Id header of the request when one was sent, otherwise its
\* x-correlation-id header when one was sent, otherwise a generated identifier
C14_RequestIdEchoed ==
  (call.fn = "handler" /\ result.done) =>
    LET sent == result.value.headers.xRequestId
    IN  /\ call.headers.xRequestId # NoStr => sent = call.headers.xRequestId
        /\ (call.headers.xRequestId = NoStr /\ call.headers.xCorrelationId # NoStr) =>
              sent = call.headers.xCorrelationId
        /\ (call.headers.xRequestId = NoStr /\ call.headers.xCorrelationId = NoStr) =>
              sent \in {"uuid-1", "uuid-2"}

\* an error reply to a request that sent x-correlation-id only carries that id
C14_Witness ==
  /\ call.fn = "handler"
  /\ result.done
  /\ call.headers.xRequestId = NoStr
  /\ call.headers.xCorrelationId = "corr-1"
  /\ result.value.reply.status = 404
  /\ result.value.headers.xRequestId = "corr-1"

\* C15: every error reply has a requestId in its body, and it is the
\* x-request-id header of the same reply
C15_ErrorBodyRequestId ==
  (call.fn = "handler" /\ result.done /\ result.value.reply.status >= 400) =>
    /\ "requestId" \in DOMAIN result.value.reply.payload
    /\ result.value.reply.payload.requestId = result.value.headers.xRequestId

\* C16: the first RateLimitMax requests of a caller in a window are served;
\* every further one is answered 429 with a Retry-After header and a body
\* titled 'Rate Limit Exceeded' with statusCode 429, and reaches no route
C16_RateLimit ==
  /\ call.fn = "route" => call.n <= RateLimitMax
  /\ Op = "GET /health/test" =>
        IF Args.n <= RateLimitMax THEN Status = 200
        ELSE /\ Status = 429
             /\ "headers" \in DOMAIN lastResponse.reply
             /\ lastResponse.reply.headers.retryAfter # NoStr
             /\ Payload.title = "Rate Limit Exceeded"
             /\ Payload.statusCode = 429

\* a caller is refused on its request after the last allowed one while the
\* other caller is still served
C16_Witness ==
  /\ Op = "GET /health/test"
  /\ Args.n = RateLimitMax + 1
  /\ Status = 429
  /\ \E c \in Callers : c # Args.caller /\ hits[c] > 0 /\ hits[c] < RateLimitMax

\* C17: the request a create tool sends carries an X-Request-ID and an
\* X-Idempotency-Key header, each the caller's value when the caller gave one
\* and a generated one otherwise
C17_CreateHeaders ==
  (call.sent > 0 /\ call.tool.name \in CreateTools) =>
     /\ call.headers.xRequestId # NoStr
     /\ call.headers.xIdempotencyKey # NoStr
     /\ call.args.requestId # NoStr => call.headers.xRequestId = call.args.requestId
     /\ call.args.idempotencyKey # NoStr => call.headers.xIdempotencyKey = call.args.idempotencyKey

\* C18: ApiClient.request never throws, sends at most one HTTP request, and
\* returns a 'Network Error' without data when the fetch times out or fails
C18_RequestNeverThrows ==
  /\ call.request # "threw"
  /\ call.sent <= 1
  /\ (call.request = "returned" /\ call.failure # NoStr) =>
        /\ call.response.data = None
        /\ call.response.error # None
        /\ call.response.error[1].title = "Network Error"

\* C19: a tool call the service answered with a non-2xx status fails with a
\* message that carries the status and the detail string of the service
C19_ToolErrorCarriesDetailAndStatus ==
  (call.fn = "done" /\ call.service.status # NoNum /\ ~ResponseOk(call.service.status)) =>
     /\ result.value.thrown
     /\ \E i \in DOMAIN result.value.message : result.value.message[i] = ToString(call.service.status)
     /\ (call.service.body # None /\ call.service.body[1].detail # NoStr) =>
          \E i \in DOMAIN result.value.message : result.value.message[i] = call.service.body[1].detail

\* the natural key of a row of the features or of the sprints
KeyOf(table, x) == IF table = "feature" THEN x.featureId ELSE x.code

\* C21: a PATCH that sets the featureId of a feature or the code of a sprint
\* to the key of another row of the same project is answered 409 and changes
\* nothing; to its own key, or to a key held only in another project, it is
\* answered 200 and the row has the key
C21_KeyUpdate ==
  [][(/\ lastResponse' # lastResponse
      /\ lastResponse'.op \in {"PATCH /features/:id", "PATCH /sprints/:id"}
      /\ lastResponse'.args.key # <<>>
      /\ lastResponse'.reply.status # 404) =>
       LET a == lastResponse'.args
           table == IF lastResponse'.op = "PATCH /features/:id" THEN "feature" ELSE "sprint"
           row == CHOOSE x \in db[table] : x.id = a.id
           held == \E y \in db[table] : y.id # a.id /\ y.projectId = row.projectId /\ KeyOf(table, y) = a.key
       IN  /\ held => lastResponse'.reply.status = 409 /\ db' = db
           /\ ~held =>
                /\ lastResponse'.reply.status = 200
                /\ \E x \in db'[table] : x.id = a.id /\ KeyOf(table, x) = a.key /\ x.projectId = row.projectId
                /\ {y \in db'[table] : y.id # a.id} = {y \in db[table] : y.id # a.id}]_vars

\* a PATCH changed the code of a sprint to the code that a sprint of
\* another project holds
C21_Witness ==
  /\ Op = "PATCH /sprints/:id"
  /\ Status = 200
  /\ \E x \in db.sprint, old, y \in Args.before.sprint :
       /\ x.id = Args.id /\ x.code = Args.key
       /\ old.id = x.id /\ old.code # x.code
       /\ y.projectId # x.projectId /\ y.code = Args.key

\* C22: a create sent again after it was answered 201 is handled as a new
\* request: for a document, a feature or a sprint it is answered 409 and the
\* store stays as it is, for a project a second project with a new id is stored
C22_RepeatedCreate ==
  [][(lastResponse' # lastResponse /\ lastResponse'.reply.status \notin {400, 404, 422}) =>
       LET a == lastResponse'.args
           op == lastResponse'.op
           slug == IF a.slug # None THEN a.slug[1] ELSE generateSlug(a.title)
       IN  /\ op = "POST /projects" =>
                /\ lastResponse'.reply.status = 201
                /\ \E p \in db'.project :
                     /\ p.id \notin {x.id : x \in db.project}
                     /\ db'.project = db.project \cup {p}
           /\ (op = "POST /documents" /\ \E x \in db.document : x.projectId = a.projectId /\ x.slug = slug)
                => lastResponse'.reply.status = 409 /\ db' = db
           /\ (op = "POST /features" /\ \E x \in db.feature : x.projectId = a.projectId /\ x.featureId = a.key)
                => lastResponse'.reply.status = 409 /\ db' = db
           /\ (op = "POST /sprints" /\ \E x \in db.sprint : x.projectId = a.projectId /\ x.code = a.key)
                => lastResponse'.reply.status = 409 /\ db' = db]_vars

\* C23: /health/live, /health/ready and /health/startup answer 503 when the
\* store check fails or does not settle within the timeout of the endpoint
\* and 200 otherwise, and answer within that timeout
C23_HealthReportsStore ==
  Op \in {"GET /health/live", "GET /health/ready", "GET /health/startup"} =>
    LET timeout == IF Op = "GET /health/ready" THEN ReadyTimeout ELSE LiveTimeout
        reachable == Args.store.answers /\ ~Args.store.fails /\ Args.store.after <= timeout
    IN  /\ Status = IF reachable THEN 200 ELSE 503
        /\ Args.elapsed <= timeout

\* C24: every stored document, feature and sprint references exactly one
\* stored project and every stored sprint item exactly one stored sprint,
\* also when the parent is deleted between the check of a create and its write
C24_OwnershipTree ==
  /\ \A x \in db.document \cup db.feature \cup db.sprint :
       Cardinality({p \in db.project : p.id = x.projectId}) = 1
  /\ \A i \in 1..Len(db.sprintItem) :
       Cardinality({s \in db.sprint : s.id = db.sprintItem[i].sprintId}) = 1

\* a document create that had found its project is answered after the project
\* was deleted, beside a project that is still there
C24_Witness ==
  /\ Op = "POST /documents"
  /\ "title" \in DOMAIN Args
  /\ Status # 201
  /\ \A p \in db.project : p.id # Args.projectId
  /\ db.project # {}

C26_ValidationBeforeRequest ==
  /\ call.sent > 0 => call.parsed /\ call.tool.name \in ToolHandlers
  /\ (call.fn # "tool" /\ ~call.parsed) => call.sent = 0 /\ call.fn = "done" /\ result.value.thrown
  /\ (call.tool.name \in CreateTools /\ Len(call.args.title) = 0) => ~call.parsed /\ call.sent = 0
  /\ call.tool.name \notin ToolHandlers => ~call.parsed /\ call.sent = 0

\* create_document without a title has failed and nothing was sent
C26_Witness ==
  /\ call.fn = "done"
  /\ call.tool.name = "create_document"
  /\ Len(call.args.title) = 0
  /\ IsCuid(call.args.projectId)
  /\ result.value.thrown
  /\ call.sent = 0

\* C27: the schema of a gateway create tool for documents, features and
\* sprints accepts an argument set exactly when the schema of the service's
\* route accepts the body made of it
C27_SameRules ==
  (call.fn # "tool" /\ call.tool.name \in {"create_document", "create_feature", "create_sprint"}) =>
     (call.parsed <=> ServiceAccepts(call.tool.name, call.args))

\* C28: errorHandler answers a NotFoundError or a ConflictError with the
\* error's own status code, whatever text its message holds
C28_ClassifiedByClass ==
  (call.fn = "errorHandler" /\ result.done /\ call.error.cls \in {"NotFoundError", "ConflictError"}) =>
     /\ result.value.status = call.error.statusCode
     /\ result.value.payload.status = call.error.statusCode

\* C29: a PATCH /documents/:id with a title and no slug stores
\* generateSlug(title) as the slug, or is answered 409 and changes nothing
\* when another document of the project has that slug; with neither title
\* nor slug the slug stays
C29_TitleUpdateRegeneratesSlug ==
  [][(/\ lastResponse' # lastResponse
      /\ lastResponse'.op = "PATCH /documents/:id"
      /\ lastResponse'.args.slug = None
      /\ \E x \in db.document : x.id = lastResponse'.args.id) =>
       LET a == lastResponse'.args
           old == CHOOSE x \in db.document : x.id = a.id
           new == CHOOSE x \in db'.document : x.id = a.id
       IN  IF a.title = None
           THEN lastResponse'.reply.status = 200 /\ new.slug = old.slug
           ELSE LET slug == generateSlug(a.title[1])
                    taken == \E y \in db.document : y.id # a.id /\ y.projectId = old.projectId /\ y.slug = slug
                IN  IF taken THEN lastResponse'.reply.status = 409 /\ db' = db
                    ELSE lastResponse'.reply.status = 200 /\ new.slug = slug /\ new.title = a.title[1]]_vars

\* C30: the slug generated for a title that createDocumentSchema accepts is
\* one the schema would accept as an explicit slug (1 to 100 characters of
\* a-z, 0-9 and the hyphen), and generateSlug leaves it as it is
C30_GeneratedSlugIsValidSlug ==
  (/\ call.fn = "slug"
   /\ call.slug = None
   /\ result.done
   /\ createDocumentSchema([title |-> call.title, kind |-> "FREEFORM", slug |-> None])) =>
     /\ createDocumentSchema([title |-> call.title, kind |-> "FREEFORM", slug |-> Some(result.value)])
     /\ generateSlug(result.value) = result.value

====
